---- MODULE Spec2Model ----
(***************************************************************************)
(* Model of the structured-output extraction pipeline of the nutrition     *)
(* backend (src/services/food.service.ts, src/utils/food.ts).              *)
(*                                                                         *)
(* Texts are sequences of one-character strings, so that the regular       *)
(* expressions of the source are modelled character by character.  Numbers *)
(* are JavaScript doubles, represented as a kind (finite, +Infinity,       *)
(* -Infinity, NaN) and, for finite numbers, a fixed-point magnitude.       *)
(***************************************************************************)
EXTENDS Integers, Sequences, FiniteSets, TLC

(***************************************************************************)
(* Characters                                                              *)
(***************************************************************************)

\* A text literal as a sequence of characters.
Chars(str) == [i \in 1..Len(str) |-> SubSeq(str, i, i)]

DigitSeq == <<"0", "1", "2", "3", "4", "5", "6", "7", "8", "9">>

\* \d
Digit == {DigitSeq[i] : i \in 1..10}

DigitVal(c) == (CHOOSE i \in 1..10 : DigitSeq[i] = c) - 1

Letter == {Chars("abcdefghijklmnopqrstuvwxyzABCDEFGHIJKLMNOPQRSTUVWXYZ")[i] : i \in 1..52}

\* [a-zA-Z_$]
IdentStart == Letter \cup {"_", "$"}

\* [a-zA-Z0-9_$]
IdentPart == IdentStart \cup Digit

\* A control character that is not white space (U+0001), as one character.
SOH == "<U+0001>"

\* [\x00-\x1f]
Control == {"\n", "\t", "\r", "\f", SOH}

\* \s
WhiteSpace == {" ", "\n", "\t", "\r", "\f"}

\* The character of s at position i, or the empty string past either end.
At(s, i) == IF i >= 1 /\ i <= Len(s) THEN s[i] ELSE ""

Min(S) == CHOOSE x \in S : \A y \in S : x <= y

Max(S) == CHOOSE x \in S : \A y \in S : x >= y

\* The first position >= i of s whose character is not in class (Len(s)+1
\* when there is none): the end of a greedy class* started at i.
SkipWhile(s, class, i) ==
  IF \A j \in i..Len(s) : s[j] \in class THEN Len(s) + 1
  ELSE CHOOSE j \in i..Len(s) : s[j] \notin class /\ \A k \in i..(j - 1) : s[k] \in class

\* The first position >= i of s whose character is in class (Len(s)+1 when
\* there is none).
SkipUntil(s, class, i) ==
  IF \A j \in i..Len(s) : s[j] \notin class THEN Len(s) + 1
  ELSE CHOOSE j \in i..Len(s) : s[j] \in class /\ \A k \in i..(j - 1) : s[k] \notin class

\* The characters of s at the positions of the set dropped removed.
DropPositions(s, dropped) ==
  LET sel == SelectSeq([i \in 1..Len(s) |-> <<i, s[i]>>], LAMBDA p : p[1] \notin dropped)
  IN  [i \in 1..Len(sel) |-> sel[i][2]]

(***************************************************************************)
(* Numbers: JavaScript doubles                                             *)
(***************************************************************************)

\* A finite double is v / Unit.
Unit == 10000

\* Finite doubles whose integer part has more than MaxIntDigits digits are
\* not tracked by magnitude (kind "big": finite, positive, large).
MaxIntDigits == 5

\* The largest double is about 1.8e308: a decimal integer of more than
\* MaxDoubleDigits significant digits reads as Infinity.
MaxDoubleDigits == 309

Fin(v) == [k |-> "fin", v |-> v]
Big == [k |-> "big", v |-> 0]
NegBig == [k |-> "nbig", v |-> 0]
PosInf == [k |-> "inf", v |-> 0]
NegInf == [k |-> "ninf", v |-> 0]
NaN == [k |-> "nan", v |-> 0]

isNaN(x) == x.k = "nan"

isFinite(x) == x.k \in {"fin", "big", "nbig"}

IsNegative(x) == x.k \in {"ninf", "nbig"} \/ (x.k = "fin" /\ x.v < 0)

\* Math.max(0, x) for x not NaN
Max0(x) == IF IsNegative(x) THEN Fin(0) ELSE x

RECURSIVE DigitsValue(_, _)
\* The value of the digit string ds read after the value acc.
DigitsValue(ds, acc) ==
  IF ds = <<>> THEN acc ELSE DigitsValue(Tail(ds), acc * 10 + DigitVal(Head(ds)))

\* The first four fraction digits of fd, in units of 1 / Unit.
FracValue(fd) ==
  LET d(i) == IF i <= Len(fd) THEN DigitVal(fd[i]) ELSE 0
  IN  d(1) * 1000 + d(2) * 100 + d(3) * 10 + d(4)

\* The digits of ds from its first non-zero digit on.
StripZeros(ds) == SubSeq(ds, SkipWhile(ds, {"0"}, 1), Len(ds))

\* The double written as sig "." fracDigits times 10^exp10, sig having no
\* leading zero and magnitude being the number of digits of its integer part.
ScaledNumber(sig, fracDigits, exp10, magnitude) ==
  IF sig = <<>> /\ StripZeros(fracDigits) = <<>> THEN Fin(0)
  ELSE IF magnitude > MaxDoubleDigits THEN PosInf
  ELSE IF magnitude > MaxIntDigits THEN Big
  ELSE IF exp10 = 0 THEN Fin(DigitsValue(sig, 0) * Unit + FracValue(fracDigits))
  ELSE IF exp10 > 0
    THEN Fin(DigitsValue(sig \o [i \in 1..exp10 |-> IF i <= Len(fracDigits) THEN fracDigits[i] ELSE "0"], 0) * Unit
             + FracValue(SubSeq(fracDigits, exp10 + 1, Len(fracDigits))))
    ELSE Fin(DigitsValue(SubSeq(sig, 1, Len(sig) + exp10), 0) * Unit
             + FracValue([i \in 1..(0 - exp10 - Len(sig)) |-> "0"]
                         \o SubSeq(sig, Max({1, Len(sig) + exp10 + 1}), Len(sig))
                         \o fracDigits))

\* The double written as intDigits "." fracDigits times 10^exp10.
DecimalToNumberOf(sig, fracDigits, exp10) ==
  ScaledNumber(sig, fracDigits, exp10,
    IF sig # <<>> THEN Len(sig) + exp10
    ELSE exp10 - (Len(fracDigits) - Len(StripZeros(fracDigits))))

DecimalToNumber(intDigits, fracDigits, exp10) ==
  DecimalToNumberOf(StripZeros(intDigits), fracDigits, exp10)

\* A decimal literal read from position i0 of s: the ends (exclusive) i1 of
\* its integer digits, i2 of its fraction, i4 of its exponent, and the start
\* i3 of its exponent digits (0 when it has no exponent part).
Literal(s, i0, i1, i2, i3, i4) ==
  [intDigits  |-> SubSeq(s, i0, i1 - 1),
   hasFrac    |-> i2 > i1,
   fracDigits |-> SubSeq(s, i1 + 1, i2 - 1),
   hasExp     |-> i3 # 0,
   expNeg     |-> i3 # 0 /\ At(s, i3 - 1) = "-",
   expDigits  |-> IF i3 # 0 THEN SubSeq(s, i3, i4 - 1) ELSE <<>>,
   fracEnd    |-> i2,
   end        |-> i4]

ScanExpDigits(s, i0, i1, i2, i3) ==
  Literal(s, i0, i1, i2, i3, IF i3 # 0 THEN SkipWhile(s, Digit, i3) ELSE i2)

ScanExp(s, i0, i1, i2) ==
  ScanExpDigits(s, i0, i1, i2,
    IF At(s, i2) \notin {"e", "E"} THEN 0
    ELSE IF At(s, i2 + 1) \in {"+", "-"} THEN i2 + 2 ELSE i2 + 1)

ScanFrac(s, i0, i1) ==
  ScanExp(s, i0, i1, IF At(s, i1) = "." THEN SkipWhile(s, Digit, i1 + 1) ELSE i1)

\* The longest \d*(\.\d*)?([eE][+-]?\d*)? at position i of s.
ScanLiteral(s, i) == ScanFrac(s, i, SkipWhile(s, Digit, i))

\* The value of the exponent digits ds, saturated (any exponent beyond four
\* digits is out of the range of doubles).
ExponentValue(ds) ==
  IF Len(StripZeros(ds)) > 4 THEN 9999 ELSE DigitsValue(StripZeros(ds), 0)

\* The power of ten of the exponent part of lit.
Exp10(lit) ==
  IF ~lit.hasExp THEN 0
  ELSE IF lit.expNeg THEN 0 - ExponentValue(lit.expDigits)
  ELSE ExponentValue(lit.expDigits)

\* The double the literal lit denotes, its exponent part left out.
MantissaToNumber(lit) == DecimalToNumber(lit.intDigits, lit.fracDigits, 0)

\* parseFloat(s) for a text s of digits and dots (the only texts the source
\* passes to it): the longest prefix digits[.digits] or .digits, else NaN.
parseFloatOf(lit) ==
  IF lit.intDigits = <<>> /\ lit.fracDigits = <<>> THEN NaN ELSE MantissaToNumber(lit)

parseFloat(s) == parseFloatOf(ScanLiteral(s, 1))

RECURSIVE NatToChars(_)
\* The decimal digits of the natural number n.
NatToChars(n) ==
  IF n < 10 THEN <<DigitSeq[n + 1]>>
  ELSE Append(NatToChars(n \div 10), DigitSeq[(n % 10) + 1])

\* x.toFixed(2) for x >= 0: the nearest hundredth, two fraction digits.
toFixed2(x) ==
  CASE x.k = "fin" ->
         LET h == (x.v + 50) \div 100
         IN  NatToChars(h \div 100) \o <<".">>
               \o <<DigitSeq[((h % 100) \div 10) + 1], DigitSeq[(h % 10) + 1]>>
    [] x.k = "inf" -> Chars("Infinity")
    [] x.k = "nan" -> Chars("NaN")

\* The least magnitude, in units of 1 / Unit, that is not tracked.
FinLimit == DigitsValue(<<"1">> \o [i \in 1..MaxIntDigits |-> "0"], 0) * Unit

\* The finite double v / Unit, v >= 0.
FinOrBig(v) == IF v >= FinLimit THEN Big ELSE Fin(v)

\* a + b, a - b, a * b, a / b for the doubles parseFloat reads from digits
\* (zero or positive, finite or Infinity). Finite operands have at most two
\* fraction digits in the model's texts. An operation whose result depends
\* on an untracked magnitude (the difference or quotient of two of kind
\* "big", the product of one and a fraction) has no case here.
NumAdd(a, b) ==
  CASE a.k = "inf" \/ b.k = "inf" -> PosInf
    [] a.k = "fin" /\ b.k = "fin" -> FinOrBig(a.v + b.v)
    [] a.k \in {"fin", "big"} /\ b.k \in {"fin", "big"} -> Big

NumSub(a, b) ==
  CASE a.k = "inf" /\ b.k = "inf" -> NaN
    [] a.k = "inf" /\ b.k # "inf" -> PosInf
    [] a.k # "inf" /\ b.k = "inf" -> NegInf
    [] a.k = "fin" /\ b.k = "fin" -> Fin(a.v - b.v)
    [] a.k = "big" /\ b.k = "fin" -> Big
    [] a.k = "fin" /\ b.k = "big" -> NegBig

NumMul(a, b) ==
  CASE a = Fin(0) /\ b.k = "inf" -> NaN
    [] a.k = "inf" /\ b = Fin(0) -> NaN
    [] a.k = "inf" /\ b # Fin(0) -> PosInf
    [] a # Fin(0) /\ b.k = "inf" -> PosInf
    [] a.k = "fin" /\ b.k = "fin" ->
         IF b.v \div 100 # 0 /\ a.v \div 100 > (FinLimit - 1) \div (b.v \div 100)
           THEN Big ELSE Fin((a.v \div 100) * (b.v \div 100))
    [] a.k = "big" /\ b.k = "big" -> Big

\* a / b for b not zero; the divisor is at most 2000 when both are finite.
NumDiv(a, b) ==
  CASE a.k = "inf" /\ b.k = "inf" -> NaN
    [] a.k = "inf" /\ b.k # "inf" -> PosInf
    [] a.k # "inf" /\ b.k = "inf" -> Fin(0)
    [] a.k = "fin" /\ b.k = "fin" /\ b.v <= 2000 * Unit ->
         IF a.v \div b.v >= FinLimit \div Unit THEN Big
         ELSE LET r1 == a.v % b.v
                  r2 == (r1 * 100) % b.v
              IN  Fin((a.v \div b.v) * Unit + ((r1 * 100) \div b.v) * 100 + (r2 * 100) \div b.v)

(***************************************************************************)
(* ExpressionNormalizer: fixMacrosInJsonString                             *)
(***************************************************************************)

\* The end (exclusive) of the longest \d+\.?\d* starting at position i of s,
\* or 0 when s has no digit at i.
NumberEnd(s, i) ==
  IF At(s, i) \notin Digit THEN 0
  ELSE LET j1 == SkipWhile(s, Digit, i)
           j2 == IF At(s, j1) = "." THEN j1 + 1 ELSE j1
       IN  SkipWhile(s, Digit, j2)

\* The match of /(\d+\.?\d*)op(\d+\.?\d*)/ that starts at position i of s:
\* its two groups and its end (exclusive); end = 0 when there is none.
ExprMatchAt(s, op, i) ==
  LET e1 == NumberEnd(s, i)
      e2 == IF e1 # 0 /\ At(s, e1) = op THEN NumberEnd(s, e1 + 1) ELSE 0
  IN  IF e2 = 0 THEN [end |-> 0, num1 |-> <<>>, num2 |-> <<>>]
      ELSE [end |-> e2, num1 |-> SubSeq(s, i, e1 - 1), num2 |-> SubSeq(s, e1 + 1, e2 - 1)]

\* The literal the replace callback of operator op returns for a match.
ExprValue(op, num1, num2) ==
  LET a == parseFloat(num1)
      b == parseFloat(num2)
  IN  CASE op = "+" -> toFixed2(NumAdd(a, b))
        [] op = "-" -> toFixed2(Max0(NumSub(a, b)))
        [] op = "*" -> toFixed2(NumMul(a, b))
        [] op = "/" -> IF b = Fin(0) THEN Chars("0.00") ELSE toFixed2(NumDiv(a, b))

RECURSIVE ReplaceExprFrom(_, _, _, _, _)
\* jsonStr.replace(/(\d+\.?\d*)op(\d+\.?\d*)/g, callback), from position i
\* on, acc being the output for the text before i and starts the positions
\* where the expression matches: matches are taken left to right, do not
\* overlap, and a replacement is not scanned again.
ReplaceExprFrom(s, op, starts, i, acc) ==
  LET next == {p \in starts : p >= i}
  IN  IF next = {} THEN acc \o SubSeq(s, i, Len(s))
      ELSE LET p == Min(next)
               m == ExprMatchAt(s, op, p)
           IN  ReplaceExprFrom(s, op, starts, m.end,
                 acc \o SubSeq(s, i, p - 1) \o ExprValue(op, m.num1, m.num2))

ReplaceExpr(s, op) ==
  IF \A i \in 1..Len(s) : s[i] # op THEN s
  ELSE ReplaceExprFrom(s, op,
         {p \in 1..Len(s) : s[p] \in Digit /\ ExprMatchAt(s, op, p).end # 0}, 1, <<>>)

\* The passes in the order of algebraic precedence: * / + -.
fixMacrosWithPrecedence(jsonStr) ==
  ReplaceExpr(ReplaceExpr(ReplaceExpr(ReplaceExpr(jsonStr, "*"), "/"), "+"), "-")

\* One pass per operator, in the order + - * /, each on the previous output.
fixMacrosInJsonString(jsonStr) ==
  ReplaceExpr(ReplaceExpr(ReplaceExpr(ReplaceExpr(jsonStr, "+"), "-"), "*"), "/")

(***************************************************************************)
(* StructuralRepairer: repairJsonString                                    *)
(***************************************************************************)

Closer == {"}", "]"}

\* The end (exclusive) of the match of /,(\s*[}\]])/ at position i, or 0.
TrailingCommaEnd(s, i) ==
  IF At(s, i) # "," THEN 0
  ELSE LET j == SkipWhile(s, WhiteSpace, i + 1)
       IN  IF At(s, j) \in Closer THEN j + 1 ELSE 0

\* A repair without the pass over trailing commas.
TrailingCommasKept(s) == s

\* replace(/,(\s*[}\]])/g, '$1'): a match holds one comma, so the matches
\* cannot overlap and every comma that starts a match is dropped.
RemoveTrailingCommas(s) ==
  DropPositions(s, {i \in 1..Len(s) : TrailingCommaEnd(s, i) # 0})

\* replace(/[\x00-\x1f]+/g, '')
RemoveControlChars(s) == SelectSeq(s, LAMBDA c : c \notin Control)

\* The match of /([{,]\s*)([a-zA-Z_$][a-zA-Z0-9_$]*)\s*:/ at position i:
\* the start and end (exclusive) of the identifier and the end of the match
\* (exclusive); end = 0 when there is none.
KeyMatchAt(s, i) ==
  IF At(s, i) \notin {"{", ","} THEN [end |-> 0, from |-> 0, to |-> 0]
  ELSE LET k1 == SkipWhile(s, WhiteSpace, i + 1)
           k2 == IF At(s, k1) \in IdentStart THEN SkipWhile(s, IdentPart, k1 + 1) ELSE 0
           k3 == IF k2 = 0 THEN 0 ELSE SkipWhile(s, WhiteSpace, k2)
       IN  IF k2 # 0 /\ At(s, k3) = ":" THEN [end |-> k3 + 1, from |-> k1, to |-> k2]
           ELSE [end |-> 0, from |-> 0, to |-> 0]

RECURSIVE QuoteKeysFrom(_, _, _, _)
\* replace(/([{,]\s*)([a-zA-Z_$][a-zA-Z0-9_$]*)\s*:/g, '$1"$2":') from
\* position i on, acc being the output for the text before i and starts the
\* positions where the pattern matches (a match holds one "{" or ",", its
\* first character, so the matches cannot overlap).
QuoteKeysFrom(s, starts, i, acc) ==
  LET next == {p \in starts : p >= i}
  IN  IF next = {} THEN acc \o SubSeq(s, i, Len(s))
      ELSE LET p == Min(next)
               m == KeyMatchAt(s, p)
           IN  QuoteKeysFrom(s, starts, m.end,
                 acc \o SubSeq(s, i, m.from - 1) \o <<"\"">>
                     \o SubSeq(s, m.from, m.to - 1) \o <<"\"", ":">>)

QuoteKeys(s) ==
  QuoteKeysFrom(s, {p \in 1..Len(s) : s[p] \in {"{", ","} /\ KeyMatchAt(s, p).end # 0}, 1, <<>>)

\* replace(/\\'/g, "'"): every backslash directly before a single quote is
\* dropped (a match is these two characters, so the matches cannot overlap).
UnescapeQuotes(s) ==
  DropPositions(s, {i \in 1..Len(s) : s[i] = "\\" /\ At(s, i + 1) = "'"})

\* The positions of s holding the character c.
Positions(s, c) == {i \in 1..Len(s) : s[i] = c}

\* s.match(/\{[\s\S]*\}/): the text from the first "{" to the last "}", or
\* the mark NoMatch when no "}" follows the first "{".
NoMatch == <<"<null>">>

BracesBetween(s, open, close) ==
  IF open # {} /\ close # {} /\ Min(open) < Max(close)
    THEN SubSeq(s, Min(open), Max(close))
    ELSE NoMatch

MatchBraces(s) == BracesBetween(s, Positions(s, "{"), Positions(s, "}"))

\* The last step of repairJsonString: the match when there is one.
KeepMatch(repaired) ==
  IF MatchBraces(repaired) # NoMatch THEN MatchBraces(repaired) ELSE repaired

repairJsonString(jsonStr) ==
  KeepMatch(UnescapeQuotes(QuoteKeys(RemoveControlChars(RemoveTrailingCommas(jsonStr)))))

(***************************************************************************)
(* JavaScript values and JSON.parse                                        *)
(***************************************************************************)

Undefined == [t |-> "undefined"]
Null == [t |-> "null"]
Bool(b) == [t |-> "boolean", bool |-> b]
Num(x) == [t |-> "number", num |-> x]
Str(s) == [t |-> "string", str |-> s]
Arr(a) == [t |-> "array", arr |-> a]
\* An object is the sequence of its <<key, value>> members in source order.
Obj(o) == [t |-> "object", obj |-> o]

\* The white space of the JSON grammar.
JsonWS == {" ", "\n", "\t", "\r"}

HexDigit == Digit \cup {Chars("abcdefABCDEF")[i] : i \in 1..6}

\* The character a \uXXXX escape decodes to (which one is not tracked).
EscapedCodePoint == "<U+XXXX>"

\* The character the escape \c decodes to.
Unescape(c) ==
  CASE c = "n" -> "\n"
    [] c = "t" -> "\t"
    [] c = "r" -> "\r"
    [] c = "f" -> "\f"
    [] c = "b" -> "<U+0008>"
    [] OTHER -> c

ParseFail == [ok |-> FALSE, val |-> Undefined, pos |-> 0]

RECURSIVE ParseStringFrom(_, _, _)
RECURSIVE ParseStringAt(_, _, _, _)

\* The rest of a JSON string whose opening quote has been read, from position
\* i on, acc being the characters decoded so far.
ParseStringFrom(s, i, acc) ==
  ParseStringAt(s, i, acc, SkipUntil(s, {"\"", "\\"} \cup Control, i))

\* ... j being the first position from i on that holds a quote, a backslash
\* or a control character.
ParseStringAt(s, i, acc, j) ==
  IF At(s, j) = "\"" THEN [ok |-> TRUE, val |-> Str(acc \o SubSeq(s, i, j - 1)), pos |-> j + 1]
  ELSE IF At(s, j) # "\\" THEN ParseFail
  ELSE IF At(s, j + 1) \in {"\"", "\\", "/", "b", "f", "n", "r", "t"}
    THEN ParseStringFrom(s, j + 2, acc \o SubSeq(s, i, j - 1) \o <<Unescape(At(s, j + 1))>>)
  ELSE IF At(s, j + 1) = "u" /\ \A k \in (j + 2)..(j + 5) : At(s, k) \in HexDigit
    THEN ParseStringFrom(s, j + 6, acc \o SubSeq(s, i, j - 1) \o <<EscapedCodePoint>>)
  ELSE ParseFail

\* -x
Negate(x) ==
  CASE x.k = "fin" -> Fin(0 - x.v)
    [] x.k = "inf" -> NegInf
    [] x.k = "ninf" -> PosInf
    [] x.k = "big" -> NegBig
    [] x.k = "nbig" -> Big
    [] OTHER -> x

\* The JSON number the literal lit is, negated when neg: its integer part
\* is 0 or starts with a non-zero digit, a fraction and an exponent hold at
\* least one digit.
JsonNumber(lit, neg) ==
  IF \/ lit.intDigits = <<>>
     \/ (Len(lit.intDigits) > 1 /\ lit.intDigits[1] = "0")
     \/ (lit.hasFrac /\ lit.fracDigits = <<>>)
     \/ (lit.hasExp /\ lit.expDigits = <<>>)
    THEN ParseFail
    ELSE [ok |-> TRUE,
          val |-> Num(IF neg THEN Negate(DecimalToNumber(lit.intDigits, lit.fracDigits, Exp10(lit)))
                      ELSE DecimalToNumber(lit.intDigits, lit.fracDigits, Exp10(lit))),
          pos |-> lit.end]

\* A JSON number at position i: -?(0|[1-9]\d*)(\.\d+)?([eE][+-]?\d+)?
ParseNumber(s, i) ==
  IF At(s, i) = "-" THEN JsonNumber(ScanLiteral(s, i + 1), TRUE)
  ELSE JsonNumber(ScanLiteral(s, i), FALSE)

\* The literal lit at position i of s, standing for the value v.
ParseLiteral(s, i, lit, v) ==
  IF i + Len(lit) - 1 <= Len(s) /\ SubSeq(s, i, i + Len(lit) - 1) = lit
    THEN [ok |-> TRUE, val |-> v, pos |-> i + Len(lit)]
    ELSE ParseFail

RECURSIVE ParseValue(_, _)
RECURSIVE ParseMembers(_, _, _)
RECURSIVE MemberColon(_, _, _)
RECURSIVE MemberValue(_, _, _, _)
RECURSIVE MemberEnd(_, _, _, _)
RECURSIVE NextMember(_, _, _)
RECURSIVE ParseElements(_, _, _)
RECURSIVE ElementEnd(_, _, _)
RECURSIVE NextElement(_, _, _)

\* The JSON value that starts at position i of s.
ParseValue(s, i) ==
  CASE At(s, i) = "{" ->
         IF At(s, SkipWhile(s, JsonWS, i + 1)) = "}"
           THEN [ok |-> TRUE, val |-> Obj(<<>>), pos |-> SkipWhile(s, JsonWS, i + 1) + 1]
           ELSE ParseMembers(s, SkipWhile(s, JsonWS, i + 1), <<>>)
    [] At(s, i) = "[" ->
         IF At(s, SkipWhile(s, JsonWS, i + 1)) = "]"
           THEN [ok |-> TRUE, val |-> Arr(<<>>), pos |-> SkipWhile(s, JsonWS, i + 1) + 1]
           ELSE ParseElements(s, SkipWhile(s, JsonWS, i + 1), <<>>)
    [] At(s, i) = "\"" -> ParseStringFrom(s, i + 1, <<>>)
    [] At(s, i) = "-" \/ At(s, i) \in Digit -> ParseNumber(s, i)
    [] At(s, i) = "t" -> ParseLiteral(s, i, Chars("true"), Bool(TRUE))
    [] At(s, i) = "f" -> ParseLiteral(s, i, Chars("false"), Bool(FALSE))
    [] At(s, i) = "n" -> ParseLiteral(s, i, Chars("null"), Null)
    [] OTHER -> ParseFail

\* The members of an object from position i (at a key) to its closing brace,
\* acc being the members read so far.
ParseMembers(s, i, acc) ==
  IF At(s, i) = "\"" THEN MemberColon(s, acc, ParseStringFrom(s, i + 1, <<>>))
  ELSE ParseFail

\* ... from the end of the key on.
MemberColon(s, acc, key) ==
  IF ~key.ok THEN ParseFail
  ELSE MemberValue(s, acc, key, SkipWhile(s, JsonWS, key.pos))

\* ... from the position of the colon on.
MemberValue(s, acc, key, colon) ==
  IF At(s, colon) # ":" THEN ParseFail
  ELSE MemberEnd(s, acc, key, ParseValue(s, SkipWhile(s, JsonWS, colon + 1)))

\* ... from the end of the value v of the member on.
MemberEnd(s, acc, key, v) ==
  IF ~v.ok THEN ParseFail
  ELSE NextMember(s, Append(acc, <<key.val.str, v.val>>), SkipWhile(s, JsonWS, v.pos))

\* ... from the separator at position j on.
NextMember(s, members, j) ==
  IF At(s, j) = "}" THEN [ok |-> TRUE, val |-> Obj(members), pos |-> j + 1]
  ELSE IF At(s, j) = "," THEN ParseMembers(s, SkipWhile(s, JsonWS, j + 1), members)
  ELSE ParseFail

\* The elements of an array from position i (at a value) to its closing
\* bracket, acc being the elements read so far.
ParseElements(s, i, acc) == ElementEnd(s, acc, ParseValue(s, i))

\* ... from the end of the element v on.
ElementEnd(s, acc, v) ==
  IF ~v.ok THEN ParseFail
  ELSE NextElement(s, Append(acc, v.val), SkipWhile(s, JsonWS, v.pos))

\* ... from the separator at position j on.
NextElement(s, elements, j) ==
  IF At(s, j) = "]" THEN [ok |-> TRUE, val |-> Arr(elements), pos |-> j + 1]
  ELSE IF At(s, j) = "," THEN ParseElements(s, SkipWhile(s, JsonWS, j + 1), elements)
  ELSE ParseFail

\* The outcome of JSON.parse when value r was read from the start of text.
WholeText(text, r) ==
  IF r.ok /\ SkipWhile(text, JsonWS, r.pos) = Len(text) + 1
    THEN [ok |-> TRUE, val |-> r.val]
    ELSE [ok |-> FALSE, val |-> Undefined]

\* JSON.parse(text): ok is FALSE where JSON.parse throws a SyntaxError.
JSONparse(text) == WholeText(text, ParseValue(text, SkipWhile(text, JsonWS, 1)))

\* The members of object o named key.
MembersNamed(o, key) == {i \in 1..Len(o.obj) : o.obj[i][1] = key}

\* The value of the last of the members at the positions named.
LastOf(o, named) == IF named = {} THEN Undefined ELSE o.obj[Max(named)][2]

\* v[key] for a value v that is neither null nor undefined and a key that is
\* no built-in property: the last member of that name, else undefined.
Get(v, key) == IF v.t = "object" THEN LastOf(v, MembersNamed(v, key)) ELSE Undefined

IsNullish(v) == v.t \in {"undefined", "null"}

\* Boolean(v)
Truthy(v) ==
  CASE v.t \in {"undefined", "null"} -> FALSE
    [] v.t = "boolean" -> v.bool
    [] v.t = "number" -> ~(v.num.k = "nan" \/ v.num = Fin(0))
    [] v.t = "string" -> v.str # <<>>
    [] OTHER -> TRUE

\* a || b
OrElse(a, b) == IF Truthy(a) THEN a ELSE b

(***************************************************************************)
(* NumericSanitizer: sanitizeNumericValue                                  *)
(***************************************************************************)

RECURSIVE RadixValue(_, _, _)
\* The value of the digits ds in the given radix, read after the value acc.
RadixValue(ds, radix, acc) ==
  IF ds = <<>> THEN acc
  ELSE RadixValue(Tail(ds), radix,
         acc * radix + (CHOOSE d \in 0..15 : Chars("0123456789abcdef")[d + 1] = Head(ds)
                                             \/ Chars("0123456789ABCDEF")[d + 1] = Head(ds)))

\* The digits of the given radix.
RadixDigits(radix) ==
  {Chars("0123456789abcdef")[d] : d \in 1..radix} \cup {Chars("0123456789ABCDEF")[d] : d \in 1..radix}

\* The number an unsigned numeric text u is: Infinity, or a decimal literal
\* lit that spans it with digits in its mantissa and in its exponent if any.
UnsignedToNumber(u, lit) ==
  IF u = Chars("Infinity") THEN PosInf
  ELSE IF \/ (lit.intDigits = <<>> /\ lit.fracDigits = <<>>)
          \/ (lit.hasExp /\ lit.expDigits = <<>>)
          \/ lit.end # Len(u) + 1
    THEN NaN
  ELSE DecimalToNumber(lit.intDigits, lit.fracDigits, Exp10(lit))

\* The number the digits ds of a 0x, 0o or 0b literal are.
RadixToNumber(ds, radix) ==
  IF ds = <<>> \/ \E k \in 1..Len(ds) : ds[k] \notin RadixDigits(radix) THEN NaN
  ELSE IF Len(ds) > MaxIntDigits THEN Big
  ELSE Fin(RadixValue(ds, radix, 0) * Unit)

\* Number(t) for a text t without white space around it: the empty text is
\* 0; a signed decimal literal with optional exponent, Infinity, or an
\* unsigned 0x, 0o or 0b literal; anything else is NaN.
TrimmedToNumber(t) ==
  IF t = <<>> THEN Fin(0)
  ELSE IF At(t, 1) = "0" /\ At(t, 2) \in {"x", "X"} THEN RadixToNumber(SubSeq(t, 3, Len(t)), 16)
  ELSE IF At(t, 1) = "0" /\ At(t, 2) \in {"o", "O"} THEN RadixToNumber(SubSeq(t, 3, Len(t)), 8)
  ELSE IF At(t, 1) = "0" /\ At(t, 2) \in {"b", "B"} THEN RadixToNumber(SubSeq(t, 3, Len(t)), 2)
  ELSE IF At(t, 1) = "-" THEN Negate(UnsignedToNumber(Tail(t), ScanLiteral(Tail(t), 1)))
  ELSE IF At(t, 1) = "+" THEN UnsignedToNumber(Tail(t), ScanLiteral(Tail(t), 1))
  ELSE UnsignedToNumber(t, ScanLiteral(t, 1))

\* The end (inclusive) of str without its trailing white space.
TrimEnd(str) ==
  IF \A j \in 1..Len(str) : str[j] \in WhiteSpace THEN 0
  ELSE CHOOSE j \in 1..Len(str) :
         str[j] \notin WhiteSpace /\ \A k \in (j + 1)..Len(str) : str[k] \in WhiteSpace

\* Number(str) for a text: white space is trimmed.
StringToNumber(str) ==
  TrimmedToNumber(SubSeq(str, SkipWhile(str, WhiteSpace, 1), TrimEnd(str)))

RECURSIVE ToNumber(_)
\* Number(value).  An array converts through its text: the empty array and
\* [null] are "", a one-element array is the text of its element, and a
\* longer array holds a comma, which no numeric text does.
ToNumber(value) ==
  CASE value.t = "undefined" -> NaN
    [] value.t = "null" -> Fin(0)
    [] value.t = "boolean" -> IF value.bool THEN Fin(Unit) ELSE Fin(0)
    [] value.t = "number" -> value.num
    [] value.t = "string" -> StringToNumber(value.str)
    [] value.t = "array" ->
         IF value.arr = <<>> THEN Fin(0)
         ELSE IF Len(value.arr) > 1 THEN NaN
         ELSE LET e == value.arr[1]
              IN  IF IsNullish(e) THEN Fin(0)
                  ELSE IF e.t \in {"number", "string", "array"} THEN ToNumber(e)
                  ELSE NaN
    [] value.t = "object" -> NaN

\* value.replace(/[^\d.]/g, '')
KeepDigitsAndDots(str) == SelectSeq(str, LAMBDA c : c \in Digit \cup {"."})

sanitizeNumericValue(value) ==
  IF value.t = "string"
    THEN LET num == parseFloat(KeepDigitsAndDots(value.str))
         IN  IF isNaN(num) THEN Fin(0) ELSE Max0(num)
    ELSE LET num == ToNumber(value)
         IN  IF isNaN(num) THEN Fin(0) ELSE Max0(num)

(***************************************************************************)
(* ResultShaper and one attempt of the pipeline                            *)
(***************************************************************************)

K(name) == Chars(name)

\* fixAndParseJson(jsonStr): ok is FALSE where it throws.
ParseMatch(jsonMatch) ==
  IF jsonMatch = NoMatch THEN [ok |-> FALSE, val |-> Undefined] ELSE JSONparse(jsonMatch)

fixAndParseJson(jsonStr) ==
  ParseMatch(MatchBraces(repairJsonString(fixMacrosInJsonString(jsonStr))))

\* sanitizeNumericValue(holder?.field || 0)
MacroField(holder, field) ==
  sanitizeNumericValue(
    OrElse(IF IsNullish(holder) THEN Undefined ELSE Get(holder, K(field)), Num(Fin(0))))

\* A shaping that gives up the four macros when one of them is not usable.
ShapeMacrosAllOrNothing(holder) ==
  IF \E f \in {"calories", "protein", "carbs", "fat"} : MacroField(holder, f) = Fin(0)
    THEN [calories |-> Fin(0), protein |-> Fin(0), carbs |-> Fin(0), fat |-> Fin(0)]
    ELSE [calories |-> MacroField(holder, "calories"),
          protein  |-> MacroField(holder, "protein"),
          carbs    |-> MacroField(holder, "carbs"),
          fat      |-> MacroField(holder, "fat")]

\* { calories, protein, carbs, fat } shaped from the decoded value holder
ShapeMacros(holder) ==
  [calories |-> MacroField(holder, "calories"),
   protein  |-> MacroField(holder, "protein"),
   carbs    |-> MacroField(holder, "carbs"),
   fat      |-> MacroField(holder, "fat")]

\* The body of the foodItems.map callback; item is not null.
ShapeFoodItem(item) ==
  [name     |-> OrElse(Get(item, K("name")), Str(K("Unknown food"))),
   quantity |-> OrElse(Get(item, K("quantity")), Str(K("Unknown quantity"))),
   macros   |-> ShapeMacros(Get(item, K("macros")))]

\* The body of the complementaryFoods.map callback; food is not null.
ShapeMealSuggestion(food) ==
  [name     |-> OrElse(Get(food, K("name")), Str(K("Unknown food"))),
   quantity |-> OrElse(Get(food, K("quantity")), Str(K("Unknown quantity"))),
   macros   |-> ShapeMacros(Get(food, K("macros"))),
   reason   |-> OrElse(Get(food, K("reason")), Str(K("Complements your meal")))]

\* Reading a property of null raises a TypeError: a map callback throws on a
\* null element of the list.
MapThrows(list) == \E i \in 1..Len(list.arr) : list.arr[i].t = "null"

\* result.suggestion as built from the fields of the decoded suggestion
SuggestionOf(shouldEat, reason, recommendedQuantity, alternatives, complementaryFoods, completeMealMacros) ==
  [shouldEat |-> Truthy(shouldEat),
   reason |-> OrElse(reason, Str(K("No specific advice provided"))),
   recommendedQuantity |-> recommendedQuantity,
   alternatives |-> IF alternatives.t = "array" THEN alternatives ELSE Arr(<<>>),
   mealCompletionSuggestions |->
     IF complementaryFoods.t = "array"
       THEN Arr([i \in 1..Len(complementaryFoods.arr) |->
                   ShapeMealSuggestion(complementaryFoods.arr[i])])
       ELSE Undefined,
   completeMealMacros |->
     IF Truthy(completeMealMacros) THEN ShapeMacros(completeMealMacros) ELSE Undefined]

\* result.suggestion as built from the truthy decoded value sug
ShapeSuggestion(sug) ==
  SuggestionOf(Get(sug, K("shouldEat")), Get(sug, K("reason")),
               Get(sug, K("recommendedQuantity")), Get(sug, K("alternatives")),
               Get(sug, K("complementaryFoods")), Get(sug, K("completeMealMacros")))

Thrown == [ok |-> FALSE, result |-> Undefined]

ZeroMacros == [calories |-> Fin(0), protein |-> Fin(0), carbs |-> Fin(0), fat |-> Fin(0)]

\* A shaping that adds the suggestion whether or not one is expected.
ValidatedUngated(foodItems, totalMacros, suggestion, hasContext) ==
  IF foodItems.t # "array" THEN Thrown
  ELSE IF ~(Truthy(totalMacros) /\ totalMacros.t \in {"object", "array"}) THEN Thrown
  ELSE IF MapThrows(foodItems) THEN Thrown
  ELSE IF Truthy(suggestion)
          /\ Get(suggestion, K("complementaryFoods")).t = "array"
          /\ MapThrows(Get(suggestion, K("complementaryFoods"))) THEN Thrown
  ELSE [ok |-> TRUE,
        result |->
          [foodItems |-> [i \in 1..Len(foodItems.arr) |-> ShapeFoodItem(foodItems.arr[i])],
           totalMacros |-> ShapeMacros(totalMacros),
           suggestion |-> IF Truthy(suggestion)
                            THEN ShapeSuggestion(suggestion) ELSE Undefined]]

\* A validation that also rejects an empty list of food items.
ValidatedNonEmpty(foodItems, totalMacros, suggestion, hasContext) ==
  IF foodItems.t # "array" THEN Thrown
  ELSE IF Len(foodItems.arr) = 0 THEN Thrown
  ELSE IF ~(Truthy(totalMacros) /\ totalMacros.t \in {"object", "array"}) THEN Thrown
  ELSE IF MapThrows(foodItems) THEN Thrown
  ELSE IF hasContext /\ Truthy(suggestion)
          /\ Get(suggestion, K("complementaryFoods")).t = "array"
          /\ MapThrows(Get(suggestion, K("complementaryFoods"))) THEN Thrown
  ELSE [ok |-> TRUE,
        result |->
          [foodItems |-> [i \in 1..Len(foodItems.arr) |-> ShapeFoodItem(foodItems.arr[i])],
           totalMacros |-> ShapeMacros(totalMacros),
           suggestion |-> IF hasContext /\ Truthy(suggestion)
                            THEN ShapeSuggestion(suggestion) ELSE Undefined]]

RECURSIVE SumOfItems(_, _)
\* The field-wise sum of the macros of the first n shaped items.
SumOfItems(items, n) ==
  IF n = 0 THEN ZeroMacros
  ELSE [f \in {"calories", "protein", "carbs", "fat"} |->
          NumAdd(SumOfItems(items, n - 1)[f], ShapeFoodItem(items[n]).macros[f])]

\* A shaping that recomputes the totals from the items.
ValidatedTotalsFromItems(foodItems, totalMacros, suggestion, hasContext) ==
  IF foodItems.t # "array" THEN Thrown
  ELSE IF ~(Truthy(totalMacros) /\ totalMacros.t \in {"object", "array"}) THEN Thrown
  ELSE IF MapThrows(foodItems) THEN Thrown
  ELSE IF hasContext /\ Truthy(suggestion)
          /\ Get(suggestion, K("complementaryFoods")).t = "array"
          /\ MapThrows(Get(suggestion, K("complementaryFoods"))) THEN Thrown
  ELSE [ok |-> TRUE,
        result |->
          [foodItems |-> [i \in 1..Len(foodItems.arr) |-> ShapeFoodItem(foodItems.arr[i])],
           totalMacros |-> SumOfItems(foodItems.arr, Len(foodItems.arr)),
           suggestion |-> IF hasContext /\ Truthy(suggestion)
                            THEN ShapeSuggestion(suggestion) ELSE Undefined]]

\* The try block of an attempt from the fields of the decoded value on: the
\* validation of the required structure and the construction of the result.
\* ok is FALSE where the block throws.
Validated(foodItems, totalMacros, suggestion, hasContext) ==
  IF foodItems.t # "array" THEN Thrown
  ELSE IF ~(Truthy(totalMacros) /\ totalMacros.t \in {"object", "array"}) THEN Thrown
  ELSE IF MapThrows(foodItems) THEN Thrown
  ELSE IF hasContext /\ Truthy(suggestion)
          /\ Get(suggestion, K("complementaryFoods")).t = "array"
          /\ MapThrows(Get(suggestion, K("complementaryFoods"))) THEN Thrown
  ELSE [ok |-> TRUE,
        result |->
          [foodItems |-> [i \in 1..Len(foodItems.arr) |-> ShapeFoodItem(foodItems.arr[i])],
           totalMacros |-> ShapeMacros(totalMacros),
           suggestion |-> IF hasContext /\ Truthy(suggestion)
                            THEN ShapeSuggestion(suggestion) ELSE Undefined]]

ValidateAndShape(parsed, hasContext) ==
  Validated(Get(parsed, K("foodItems")), Get(parsed, K("totalMacros")),
            Get(parsed, K("suggestion")), hasContext)

\* The try block of an attempt whose text decoded to parsed.
ShapeParsed(parsed, hasContext) ==
  IF parsed.ok THEN ValidateAndShape(parsed.val, hasContext) ELSE Thrown

\* The try block of an attempt on the text jsonStr.
TryParse(jsonStr, hasContext) == ShapeParsed(fixAndParseJson(jsonStr), hasContext)

\* A fallback that carries the suggestion whether or not one is expected.
FallbackUngated(hasContext) ==
  [foodItems |-> <<[name |-> Str(K("Analysis failed")),
                    quantity |-> Str(K("Unknown")),
                    macros |-> ZeroMacros]>>,
   totalMacros |-> ZeroMacros,
   suggestion |->
     [shouldEat |-> FALSE,
      reason |-> Str(K("I couldn't analyze this properly after multiple attempts. Could you try uploading a clearer image or entering the food details manually?")),
      alternatives |-> Arr(<<Str(K("Try uploading a clearer image")),
                             Str(K("Enter the food details manually")),
                             Str(K("Contact support if this issue persists"))>>)]]

\* The fallback response
Fallback(hasContext) ==
  [foodItems |-> <<[name |-> Str(K("Analysis failed")),
                    quantity |-> Str(K("Unknown")),
                    macros |-> ZeroMacros]>>,
   totalMacros |-> ZeroMacros,
   suggestion |->
     IF hasContext
       THEN [shouldEat |-> FALSE,
             reason |-> Str(K("I couldn't analyze this properly after multiple attempts. Could you try uploading a clearer image or entering the food details manually?")),
             alternatives |-> Arr(<<Str(K("Try uploading a clearer image")),
                                    Str(K("Enter the food details manually")),
                                    Str(K("Contact support if this issue persists"))>>)]
       ELSE Undefined]

(***************************************************************************)
(* Inputs of the model                                                     *)
(***************************************************************************)

\* The largest retry budget (maxRetries) the model explores.
MaxRetriesBound == 2

MinimalJson ==
  Chars("{\"foodItems\":[],\"totalMacros\":{\"calories\":0,\"protein\":0,\"carbs\":0,\"fat\":0}}")

\* The scenario text and its variants: with or without surrounding prose,
\* with or without a trailing comma before the last closer (and before the
\* closing bracket of the list), with the calories of the item written as
\* the sum a+b.
ScenarioText(prose, comma, a, b) ==
  (IF prose THEN Chars("Sure! ") ELSE <<>>)
  \o Chars("{\"foodItems\":[{\"name\":\"banana\",\"quantity\":\"1 medium\",\"macros\":{\"calories\":")
  \o Chars(a) \o Chars("+") \o Chars(b)
  \o Chars(",\"protein\":\"1\",\"carbs\":27,\"fat\":0}}")
  \o (IF comma THEN Chars(", ]") ELSE Chars("]"))
  \o Chars(",\"totalMacros\":{\"calories\":3.04,\"protein\":1,\"carbs\":27,\"fat\":0}")
  \o (IF comma THEN Chars(",}") ELSE Chars("}"))
  \o (IF prose THEN Chars("  thanks") ELSE <<>>)

\* The operands of the sums, as written and in units of 1 / Unit.
Operands == <<[txt |-> "1.01", v |-> 10100], [txt |-> "2.03", v |-> 20300],
              [txt |-> "10", v |-> 100000], [txt |-> "0.5", v |-> 5000]>>

ScenarioCases ==
  [prose : BOOLEAN, comma : BOOLEAN, a : {1, 3}, b : {2, 4}]

TextOfCase(c) == ScenarioText(c.prose, c.comma, Operands[c.a].txt, Operands[c.b].txt)

\* Prose without any JSON object.
GarbageText == Chars("I'm sorry, I cannot analyze this image.")

\* An object that never closes.
TruncatedText == Chars("{\"foodItems\":[{\"name\":\"rice\"")

\* Well-formed JSON without the required fields.
NoFoodItemsText == Chars("{\"items\":[],\"totalMacros\":{}}")

\* A null element in the list of food items.
NullItemText == Chars("{\"foodItems\":[null],\"totalMacros\":{\"calories\":1}}")

\* Two trailing commas: the first repair pass removes one of them.
DoubleCommaText == Chars("{\"foodItems\":[],\"totalMacros\":{\"calories\":2,,}}")

\* Numbers beyond the range of doubles, negative numbers, junk.
HugeNumbersText ==
  Chars("{\"foodItems\":[{\"name\":\"feast\",\"macros\":{\"calories\":1e999,\"protein\":-4,\"carbs\":\"12g\",\"fat\":-1e999}}],\"totalMacros\":{\"calories\":1e999,\"protein\":true}}")

\* A suggestion block with complementary foods and meal totals.
SuggestionText ==
  Chars("{\"foodItems\":[{\"name\":\"dal\",\"quantity\":\"1 cup\",\"macros\":{\"calories\":230,\"protein\":18,\"carbs\":40,\"fat\":1}}],\"totalMacros\":{\"calories\":230,\"protein\":18,\"carbs\":40,\"fat\":1},\"suggestion\":{\"shouldEat\":true,\"reason\":\"ok\",\"alternatives\":[\"roti\"],\"complementaryFoods\":[{\"name\":\"rice\",\"macros\":{\"calories\":200}}],\"completeMealMacros\":{\"calories\":430,\"protein\":-2}}}")

\* A suggestion that is null.
NullSuggestionText ==
  Chars("{\"foodItems\":[{\"name\":\"tea\"}],\"totalMacros\":{\"calories\":2},\"suggestion\":null}")

\* The texts a caller may pass as the raw response.
RawTexts ==
  {MinimalJson, GarbageText, TruncatedText, NoFoodItemsText, NullItemText,
   DoubleCommaText, HugeNumbersText, SuggestionText, NullSuggestionText, <<>>}
  \cup {TextOfCase(c) : c \in ScenarioCases}

\* The texts the model may answer a regeneration request with; the empty text
\* is the answer without content.
ModelTexts ==
  <<GarbageText, <<>>, NullItemText, MinimalJson, HugeNumbersText, SuggestionText,
    ScenarioText(TRUE, TRUE, "1.01", "2.03"), DoubleCommaText>>

RECURSIVE RepairTimes(_, _)
\* repairJsonString applied n times to text.
RepairTimes(text, n) ==
  IF n = 0 THEN text ELSE repairJsonString(RepairTimes(text, n - 1))

\* The texts a call that starts from the text raw can hand to the try block:
\* raw repaired up to MaxRetriesBound times, and the answers of the model.
RunTexts(raw) ==
  {RepairTimes(raw, n) : n \in 0..MaxRetriesBound}
  \cup {ModelTexts[r] : r \in 1..Len(ModelTexts)}

(***************************************************************************)
(* ExtractionPipeline: parseFoodAnalysisResponseWithRetry                  *)
(***************************************************************************)

VARIABLES
  pc,             \* where the call is: "parse", "regen", "awaiting", "wait", "returned", "raised"
  response,       \* the parameter response, reassigned by the parse loop
  hasContext,     \* the parameter hasContext
  maxRetries,     \* the parameter maxRetries
  base64Image,    \* the parameter base64Image; <<>> when it is not given
  isTextAnalysis, \* the parameter isTextAnalysis
  foodName,       \* the parameter foodName; <<>> when it is not given
  quantity,       \* the parameter quantity; <<>> when it is not given
  parseAttempt,   \* the counter of the parse loop
  retryAttempt,   \* the counter of the regeneration loop
  result,         \* the value returned to the caller
  outcome,        \* "none", "success" or "fallback"
  request,        \* the shape of the last model request: "none", "text", "image"
  newResponse,    \* the last answer of the model; <<>> before the first one
  analysisPrompt, \* the parameter analysisPrompt, as the sequence of its parts
  retryPrompt,    \* the prompt of the last regeneration attempt; <<>> before the first one
  rawText,        \* history: the response the caller passed
  parses,         \* history: the parse attempts made
  regens,         \* history: the regeneration attempts started
  failures,       \* history: the regeneration attempts failed
  calls,          \* history: the model calls issued
  throws,         \* history: the errors raised in regeneration attempts by the call or the request
  waits,          \* history: the backoff waits started
  arg,            \* the argument of the function under test
  out1,           \* the function applied to arg
  out2,           \* the function applied to out1
  stage,          \* "pipeline", or the step of the function under test
  tryOf,          \* the outcome of the try block on each text of this call
  repairOf,       \* repairJsonString on each text of this call
  instances,      \* the locals of each of two concurrent calls; <<>> when one call runs
  requests,       \* the locals of each request handler of the controllers in progress
  db              \* the database: the stored rows, the row locks, the connections

vars == <<pc, response, hasContext, maxRetries, base64Image, isTextAnalysis, foodName,
          quantity, parseAttempt, retryAttempt, result, outcome, request, newResponse,
          analysisPrompt, retryPrompt, rawText, parses, regens, failures, calls, throws, waits, arg, out1, out2, stage,
          tryOf, repairOf, instances, requests, db>>

params == <<hasContext, maxRetries, base64Image, isTextAnalysis, foodName, quantity, rawText,
            analysisPrompt, tryOf, repairOf>>

funvars == <<arg, out1, out2, stage, instances, requests, db>>

\* The variables of one call of the pipeline.
onevars == <<pc, response, hasContext, maxRetries, base64Image, isTextAnalysis, foodName,
             quantity, parseAttempt, retryAttempt, result, outcome, request, newResponse,
             analysisPrompt, retryPrompt, rawText, parses, regens, failures, calls, throws, waits, tryOf, repairOf>>

pipevars == <<onevars, instances, requests, db>>

NoResult == Undefined

\* The prompt the caller built for the first request and passes on: the text
\* prompt of analyzeFoodFromText, the image prompt of analyzeFoodFromImage.
OriginalPrompt(isText) ==
  IF isText THEN <<"textAnalysisPrompt">> ELSE <<"foodAnalysisPrompt">>

Init ==
  /\ pc = "parse"
  /\ response \in RawTexts
  /\ rawText = response
  /\ hasContext \in BOOLEAN
  /\ tryOf = [t \in RunTexts(response) |-> TryParse(t, hasContext)]
  /\ repairOf = [t \in RunTexts(response) |-> repairJsonString(t)]
  /\ maxRetries \in 0..MaxRetriesBound
  /\ base64Image \in {<<>>, Chars("data:image/png;base64,AAAA")}
  /\ isTextAnalysis \in BOOLEAN
  /\ analysisPrompt = OriginalPrompt(isTextAnalysis)
  /\ retryPrompt = <<>>
  /\ foodName \in {<<>>, Chars("rice")}
  /\ quantity \in {<<>>, Chars("1 cup")}
  /\ parseAttempt = 0
  /\ retryAttempt = 0
  /\ result = NoResult
  /\ outcome = "none"
  /\ request = "none"
  /\ newResponse = <<>>
  /\ parses = 0
  /\ regens = 0
  /\ failures = 0
  /\ calls = 0
  /\ throws = 0
  /\ waits = 0
  /\ arg = <<>>
  /\ out1 = <<>>
  /\ out2 = <<>>
  /\ stage = "pipeline"
  /\ instances = <<>>
  /\ requests = <<>>
  /\ db = <<>>

\* A loop condition that admits one iteration too many.
LoopContinuesInclusive(attempt, budget) == attempt <= budget

\* The condition of both loops.
LoopContinues(attempt, budget) == attempt < budget

\* The check of the image placed before the try block.
InsideTryAfterImageCheck(statement) == statement \in {"call", "parse"}

\* Whether the statement of the regeneration loop that raises is inside its
\* try block: the check of the image ("request"), the model call ("call")
\* and the parse of the answer ("parse") all are.
InsideTry(statement) == statement \in {"request", "call", "parse"}

\* A catch that gives up the local repair after the first failure.
ParseCatchAlwaysBreak(attempt, budget) == "break"

\* The catch of the parse loop: leave the loop after the last attempt,
\* otherwise repair the text for the next attempt.
ParseCatch(attempt, budget) == IF attempt = budget - 1 THEN "break" ELSE "repair"

\* A catch that gives up the remaining budget after the first failure.
RetryCatchAlwaysBreak(attempt, budget) == "break"

\* A catch that waits after the last attempt too.
RetryCatchAlwaysWait(attempt, budget) == "wait"

\* The catch of the regeneration loop: leave the loop after the last attempt,
\* otherwise wait before the next one.
RetryCatch(attempt, budget) == IF attempt = budget - 1 THEN "break" ELSE "wait"

\* A prompt without the corrective directive.
RetryPromptPlain(prompt) == prompt

\* The prompt of a regeneration attempt: the original prompt followed by the
\* corrective directive.
RetryPrompt(prompt) == prompt \o <<"directive">>

\* The request a regeneration attempt builds: text-only, text and image, or
\* none when the image is required and missing (the attempt throws).
RetryRequest(isText, name, qty, image) ==
  IF isText /\ name # <<>> /\ qty # <<>> THEN "text"
  ELSE IF image = <<>> THEN "throw"
  ELSE "image"

\* A catch that leaves the text as it is for the next attempt.
NextResponseUnrepaired(text, repairs) == text

\* The text the catch of the parse loop assigns to response for the next
\* attempt: repairJsonString(response).
NextResponse(text, repairs) == repairs[text]

\* One iteration of the parse loop.
ParseAttempt ==
  /\ pc = "parse"
  /\ LoopContinues(parseAttempt, maxRetries)
  /\ parses' = parses + 1
  /\ LET tried == tryOf[response]
     IN  IF tried.ok
           THEN /\ result' = tried.result
                /\ outcome' = "success"
                /\ pc' = "returned"
                /\ UNCHANGED <<response, parseAttempt>>
           ELSE /\ UNCHANGED <<result, outcome>>
                /\ IF ParseCatch(parseAttempt, maxRetries) = "break"
                     THEN pc' = "regen" /\ UNCHANGED <<response, parseAttempt>>
                     ELSE /\ response' = NextResponse(response, repairOf)
                          /\ parseAttempt' = parseAttempt + 1
                          /\ pc' = "parse"
  /\ UNCHANGED <<params, retryAttempt, request, newResponse, retryPrompt, regens, failures,
                 calls, throws, waits, funvars>>

\* The parse loop ends without an iteration (the budget is 0).
ParseLoopEnd ==
  /\ pc = "parse"
  /\ ~LoopContinues(parseAttempt, maxRetries)
  /\ pc' = "regen"
  /\ UNCHANGED <<params, response, parseAttempt, retryAttempt, result, outcome, request,
                 newResponse, retryPrompt, parses, regens, failures, calls, throws, waits,
                 funvars>>

\* What follows an error raised by the given statement of a regeneration
\* attempt: the catch block, then the wait or the fallback; an error raised
\* outside the try block would reach the caller.
RetryFailed(statement) ==
  IF InsideTry(statement)
    THEN /\ failures' = failures + 1
         /\ IF RetryCatch(retryAttempt, maxRetries) = "break"
              THEN /\ result' = Fallback(hasContext)
                   /\ outcome' = "fallback"
                   /\ pc' = "returned"
                   /\ UNCHANGED waits
              ELSE /\ pc' = "wait"
                   /\ waits' = waits + 1
                   /\ UNCHANGED <<result, outcome>>
    ELSE /\ pc' = "raised"
         /\ UNCHANGED <<result, outcome, failures, waits>>

\* A regeneration attempt up to its model call, or to its end when the image
\* it needs is missing.
StartRetry ==
  /\ pc = "regen"
  /\ LoopContinues(retryAttempt, maxRetries)
  /\ regens' = regens + 1
  /\ IF RetryRequest(isTextAnalysis, foodName, quantity, base64Image) = "throw"
       THEN /\ RetryFailed("request")
            /\ throws' = throws + 1
            /\ UNCHANGED <<request, calls>>
       ELSE /\ request' = RetryRequest(isTextAnalysis, foodName, quantity, base64Image)
            /\ calls' = calls + 1
            /\ pc' = "awaiting"
            /\ UNCHANGED <<result, outcome, failures, throws, waits>>
  /\ retryPrompt' = RetryPrompt(analysisPrompt)
  /\ UNCHANGED <<params, response, parseAttempt, retryAttempt, newResponse, parses, funvars>>

\* The model answers with a text: the rest of the regeneration attempt.
ModelAnswers ==
  /\ pc = "awaiting"
  /\ \E r \in 1..Len(ModelTexts) :
       LET tried == tryOf[ModelTexts[r]]
       IN  /\ newResponse' = ModelTexts[r]
           /\ IF tried.ok
                THEN /\ result' = tried.result
                     /\ outcome' = "success"
                     /\ pc' = "returned"
                     /\ UNCHANGED <<failures, waits>>
                ELSE RetryFailed("parse")
  /\ UNCHANGED <<params, response, parseAttempt, retryAttempt, request, retryPrompt, parses,
                 regens, calls, throws, funvars>>

\* The model call raises: the rest of the regeneration attempt.
ModelRaises ==
  /\ pc = "awaiting"
  /\ RetryFailed("call")
  /\ throws' = throws + 1
  /\ UNCHANGED <<params, response, parseAttempt, retryAttempt, request, newResponse,
                 retryPrompt, parses, regens, calls, funvars>>

\* The backoff wait ends: the next iteration of the regeneration loop.
BackoffEnds ==
  /\ pc = "wait"
  /\ retryAttempt' = retryAttempt + 1
  /\ pc' = "regen"
  /\ UNCHANGED <<params, response, parseAttempt, result, outcome, request, newResponse,
                 retryPrompt, parses, regens, failures, calls, throws, waits, funvars>>

\* The regeneration loop ends without an iteration (the budget is 0): the
\* fallback is returned.
RetryLoopEnd ==
  /\ pc = "regen"
  /\ ~LoopContinues(retryAttempt, maxRetries)
  /\ result' = Fallback(hasContext)
  /\ outcome' = "fallback"
  /\ pc' = "returned"
  /\ UNCHANGED <<params, response, parseAttempt, retryAttempt, request, newResponse,
                 retryPrompt, parses, regens, failures, calls, throws, waits, funvars>>

Next ==
  \/ ParseAttempt
  \/ ParseLoopEnd
  \/ StartRetry
  \/ ModelAnswers
  \/ ModelRaises
  \/ BackoffEnds
  \/ RetryLoopEnd

Spec == Init /\ [][Next]_vars

\* Every call of the model ends, with an answer or an error, and the timer of
\* the backoff fires.
FairSpec == Spec /\ WF_vars(Next)

(***************************************************************************)
(* analyzeFoodFromImage and analyzeFoodFromText                            *)
(***************************************************************************)

\* The maxRetries both functions pass to parseFoodAnalysisResponseWithRetry.
AnalyzeMaxRetries == 3

\* The first answers of the model.
FirstAnswers == {GarbageText, MinimalJson, DoubleCommaText, <<>>}

\* A call of analyzeFoodFromText (isTextAnalysis) or analyzeFoodFromImage is
\* made; stage is the step it is at, and rawText the content the model will
\* answer the first request with, if it answers.
InitAnalyze ==
  /\ pc = "analyze"
  /\ stage = "client"
  /\ rawText \in FirstAnswers
  /\ response = <<>>
  /\ hasContext \in BOOLEAN
  /\ tryOf = [t \in RunTexts(rawText) |-> TryParse(t, hasContext)]
  /\ repairOf = [t \in RunTexts(rawText) |-> repairJsonString(t)]
  /\ maxRetries = AnalyzeMaxRetries
  /\ base64Image = <<>>
  /\ isTextAnalysis \in BOOLEAN
  /\ analysisPrompt = OriginalPrompt(isTextAnalysis)
  /\ retryPrompt = <<>>
  /\ foodName \in (IF isTextAnalysis THEN {<<>>, Chars("rice")} ELSE {<<>>})
  /\ quantity \in (IF isTextAnalysis THEN {<<>>, Chars("1 cup")} ELSE {<<>>})
  /\ parseAttempt = 0
  /\ retryAttempt = 0
  /\ result = NoResult
  /\ outcome = "none"
  /\ request = "none"
  /\ newResponse = <<>>
  /\ parses = 0
  /\ regens = 0
  /\ failures = 0
  /\ calls = 0
  /\ throws = 0
  /\ waits = 0
  /\ arg = <<>>
  /\ out1 = <<>>
  /\ out2 = <<>>
  /\ instances = <<>>
  /\ requests = <<>>
  /\ db = <<>>

\* A catch that answers an error with the fallback response.
AnalyzeCatchFallback(step) == "fallback"

\* The catch of both functions: the error of every step is wrapped in a new
\* error, which is thrown.
AnalyzeCatch(step) == "throw"

\* createGroqClient returns the client.
ClientCreated ==
  /\ pc = "analyze"
  /\ stage = "client"
  /\ stage' = (IF isTextAnalysis THEN "call" ELSE "fetch")
  /\ UNCHANGED <<onevars, arg, out1, out2, instances, requests, db>>

\* urlToBase64 returns the image.
ImageFetched ==
  /\ pc = "analyze"
  /\ stage = "fetch"
  /\ base64Image' = Chars("data:image/png;base64,AAAA")
  /\ stage' = "call"
  /\ UNCHANGED <<pc, response, hasContext, maxRetries, isTextAnalysis, foodName, quantity,
                 parseAttempt, retryAttempt, result, outcome, request, newResponse,
                 analysisPrompt, retryPrompt, rawText, parses, regens, failures, calls,
                 throws, waits, tryOf, repairOf, arg, out1, out2, instances, requests, db>>

\* The model answers the first request: parseFoodAnalysisResponseWithRetry
\* is entered with the content of the answer.
FirstAnswer ==
  /\ pc = "analyze"
  /\ stage = "call"
  /\ response' = rawText
  /\ pc' = "parse"
  /\ stage' = "pipeline"
  /\ UNCHANGED <<hasContext, maxRetries, base64Image, isTextAnalysis, foodName, quantity,
                 parseAttempt, retryAttempt, result, outcome, request, newResponse,
                 analysisPrompt, retryPrompt, rawText, parses, regens, failures, calls,
                 throws, waits, tryOf, repairOf, arg, out1, out2, instances, requests, db>>

\* The step the call is at raises: the API key is missing, the image cannot
\* be fetched, or the first model call fails.
AnalyzeStepRaises ==
  /\ pc = "analyze"
  /\ IF AnalyzeCatch(stage) = "throw"
       THEN /\ pc' = "raised"
            /\ outcome' = "wrapped"
            /\ UNCHANGED result
       ELSE /\ pc' = "returned"
            /\ outcome' = "fallback"
            /\ result' = Fallback(hasContext)
  /\ UNCHANGED <<response, hasContext, maxRetries, base64Image, isTextAnalysis, foodName,
                 quantity, parseAttempt, retryAttempt, request, newResponse, analysisPrompt,
                 retryPrompt, rawText, parses, regens, failures, calls, throws, waits,
                 tryOf, repairOf, funvars>>

\* With a budget of AnalyzeMaxRetries both loops of the pipeline run at
\* least once, so the steps ParseLoopEnd and RetryLoopEnd never apply.
NextAnalyze ==
  \/ ClientCreated
  \/ ImageFetched
  \/ FirstAnswer
  \/ AnalyzeStepRaises
  \/ ParseAttempt
  \/ StartRetry
  \/ ModelAnswers
  \/ ModelRaises
  \/ BackoffEnds

SpecAnalyze == InitAnalyze /\ [][NextAnalyze]_vars

\* Every step of the call ends, with its result or with an error.
FairAnalyze == SpecAnalyze /\ WF_vars(NextAnalyze)

(***************************************************************************)
(* validateFoodImage                                                       *)
(***************************************************************************)

\* The answers of the model to the validation request.
ValidationAnswers ==
  <<Chars("{\"containsFood\":true,\"reason\":\"a pizza\"}"),
    Chars("{\"containsFood\":false,\"reason\":\"a cat\"}"),
    Chars("{\"containsFood\":\"true\"}"),
    Chars("{\"containsFood\":1}"),
    Chars("{}"),
    Chars("Sure! {\"containsFood\": true,}"),
    GarbageText,
    Chars("{\"containsFood\":true,,}"),
    <<>>>>

\* JSON.parse of the braces of the answer, normalized and repaired; ok is
\* FALSE where there are no braces or JSON.parse throws.
DecodeValidation(answer) ==
  ParseMatch(MatchBraces(repairJsonString(fixMacrosInJsonString(answer))))

\* A test of containsFood by its truthiness.
IsFoodIfTruthy(parsed) == Truthy(Get(parsed, K("containsFood")))

\* parsed.containsFood === true
IsFood(parsed) == Get(parsed, K("containsFood")) = Bool(TRUE)

\* A catch that waits after the last attempt too.
ValidationCatchAlwaysWait(attempt, budget) == "wait"

\* The catch of the loop: return after the last attempt, otherwise wait.
ValidationCatch(attempt, budget) == IF attempt = budget - 1 THEN "return" ELSE "wait"

\* A call of validateFoodImage whose client exists; retryAttempt is the
\* counter attempt of its loop.
InitValidate ==
  /\ pc = "attempt"
  /\ stage = "validate"
  /\ maxRetries \in 0..(MaxRetriesBound + 1)
  /\ tryOf = [r \in 1..Len(ValidationAnswers) |-> DecodeValidation(ValidationAnswers[r])]
  /\ repairOf = <<>>
  /\ response = <<>>
  /\ rawText = <<>>
  /\ hasContext = FALSE
  /\ base64Image = <<>>
  /\ isTextAnalysis = FALSE
  /\ analysisPrompt = <<>>
  /\ retryPrompt = <<>>
  /\ foodName = <<>>
  /\ quantity = <<>>
  /\ parseAttempt = 0
  /\ retryAttempt = 0
  /\ result = NoResult
  /\ outcome = "none"
  /\ request = "none"
  /\ newResponse = <<>>
  /\ parses = 0
  /\ regens = 0
  /\ failures = 0
  /\ calls = 0
  /\ throws = 0
  /\ waits = 0
  /\ arg = <<>>
  /\ out1 = <<>>
  /\ out2 = <<>>
  /\ instances = <<>>
  /\ requests = <<>>
  /\ db = <<>>

\* The variables no step of validateFoodImage changes.
validateparams ==
  <<response, hasContext, maxRetries, base64Image, isTextAnalysis, foodName, quantity,
    parseAttempt, request, analysisPrompt, retryPrompt, rawText, parses, regens, tryOf,
    repairOf, funvars>>

\* The catch block of an attempt.
ValidationFailed ==
  /\ failures' = failures + 1
  /\ IF ValidationCatch(retryAttempt, maxRetries) = "return"
       THEN /\ result' = [isFood |-> FALSE, reason |-> "error"]
            /\ outcome' = "failed"
            /\ pc' = "returned"
            /\ UNCHANGED waits
       ELSE /\ pc' = "wait"
            /\ waits' = waits + 1
            /\ UNCHANGED <<result, outcome>>

\* The image is fetched and the model is called.
ValidationCall ==
  /\ pc = "attempt"
  /\ LoopContinues(retryAttempt, maxRetries)
  /\ calls' = calls + 1
  /\ pc' = "calling"
  /\ UNCHANGED <<validateparams, retryAttempt, result, outcome, newResponse, failures,
                 throws, waits>>

\* urlToBase64 raises.
ValidationFetchRaises ==
  /\ pc = "attempt"
  /\ LoopContinues(retryAttempt, maxRetries)
  /\ throws' = throws + 1
  /\ ValidationFailed
  /\ UNCHANGED <<validateparams, retryAttempt, newResponse, calls>>

\* The model answers: the answer decodes and the call returns, or the
\* attempt fails.
ValidationAnswer ==
  /\ pc = "calling"
  /\ \E r \in 1..Len(ValidationAnswers) :
       /\ newResponse' = ValidationAnswers[r]
       /\ IF tryOf[r].ok
            THEN /\ result' = [isFood |-> IsFood(tryOf[r].val), reason |-> "answer"]
                 /\ outcome' = "decoded"
                 /\ pc' = "returned"
                 /\ UNCHANGED <<failures, waits>>
            ELSE ValidationFailed
  /\ UNCHANGED <<validateparams, retryAttempt, calls, throws>>

\* The model call raises.
ValidationCallRaises ==
  /\ pc = "calling"
  /\ throws' = throws + 1
  /\ ValidationFailed
  /\ UNCHANGED <<validateparams, retryAttempt, newResponse, calls>>

\* The wait ends: the next iteration of the loop.
ValidationWaitEnds ==
  /\ pc = "wait"
  /\ retryAttempt' = retryAttempt + 1
  /\ pc' = "attempt"
  /\ UNCHANGED <<validateparams, result, outcome, newResponse, failures, calls, throws,
                 waits>>

\* The loop ends without an iteration (maxRetries is 0).
ValidationLoopEnd ==
  /\ pc = "attempt"
  /\ ~LoopContinues(retryAttempt, maxRetries)
  /\ result' = [isFood |-> FALSE, reason |-> "unable"]
  /\ outcome' = "failed"
  /\ pc' = "returned"
  /\ UNCHANGED <<validateparams, retryAttempt, newResponse, failures, calls, throws, waits>>

NextValidate ==
  \/ ValidationCall
  \/ ValidationFetchRaises
  \/ ValidationAnswer
  \/ ValidationCallRaises
  \/ ValidationWaitEnds
  \/ ValidationLoopEnd

SpecValidate == InitValidate /\ [][NextValidate]_vars

(***************************************************************************)
(* The text repair and the numeric sanitizer on their own                  *)
(***************************************************************************)

\* The variables of a call of the pipeline when there is none.
NoCall ==
  /\ pc = "idle"
  /\ response = <<>>
  /\ rawText = <<>>
  /\ hasContext = FALSE
  /\ maxRetries = 0
  /\ base64Image = <<>>
  /\ isTextAnalysis = FALSE
  /\ analysisPrompt = <<>>
  /\ retryPrompt = <<>>
  /\ foodName = <<>>
  /\ quantity = <<>>
  /\ parseAttempt = 0
  /\ retryAttempt = 0
  /\ result = NoResult
  /\ outcome = "none"
  /\ request = "none"
  /\ newResponse = <<>>
  /\ parses = 0
  /\ regens = 0
  /\ failures = 0
  /\ calls = 0
  /\ throws = 0
  /\ waits = 0
  /\ tryOf = <<>>
  /\ repairOf = <<>>

\* No call of the pipeline and no request is in progress.
Idle ==
  /\ NoCall
  /\ instances = <<>>
  /\ requests = <<>>
  /\ db = <<>>

\* The longest text of RepairAlphabet the repair is applied to.
MaxRepairLen == 3

RepairAlphabet == {",", "}", "{", "\\", "'", "\"", SOH, "a", ":"}

\* Every text of at most MaxRepairLen characters of RepairAlphabet.
ShortTexts == UNION {[1..n -> RepairAlphabet] : n \in 0..MaxRepairLen}

\* Well-formed JSON objects: string values that hold ",}", ", word:" and
\* "{word:", line breaks between tokens, and plain ones.
StringWithCloser == Chars("{\"a\":\",}\"}")

StringWithKey == Chars("{\"a\":\", word:\"}")

StringWithBraceKey == Chars("{\"a\":\"{word:\"}")

LineBreaks == Chars("{\n\"a\": 1\n}")

NestedObject == Chars("{\"a\":{\"b\":[1,2]},\"c\":\"x y\"}")

WellFormedTexts ==
  {StringWithCloser, StringWithKey, StringWithBraceKey, LineBreaks, NestedObject,
   MinimalJson, SuggestionText, ScenarioText(FALSE, FALSE, "1.01", "2.03")}

RepairInputs == ShortTexts \cup WellFormedTexts

InitRepair ==
  /\ Idle
  /\ arg \in RepairInputs
  /\ out1 = <<>>
  /\ out2 = <<>>
  /\ stage = "input"

\* repairJsonString(arg)
RepairOnce ==
  /\ stage = "input"
  /\ out1' = repairJsonString(arg)
  /\ stage' = "once"
  /\ UNCHANGED <<pipevars, arg, out2>>

\* repairJsonString(repairJsonString(arg))
RepairTwice ==
  /\ stage = "once"
  /\ out2' = repairJsonString(out1)
  /\ stage' = "twice"
  /\ UNCHANGED <<pipevars, arg, out1>>

NextRepair ==
  \/ RepairOnce
  \/ RepairTwice

SpecRepair == InitRepair /\ [][NextRepair]_vars

\* A string of digits too long for a double.
TooManyDigits == [i \in 1..(MaxDoubleDigits + 1) |-> "9"]

SanitizeNumbers ==
  {Fin(v) : v \in {-25000, -1, 0, 1, 5000, 30400, 12345678}}
  \cup {Big, NegBig, PosInf, NegInf, NaN}

SanitizeStrings ==
  {Chars(str) : str \in {"", "abc", "12.5g", "-3", "1e999", "1.2.3", ".", ".5", "1.",
                         "0.0", " 42 ", "NaN", "Infinity", "-Infinity", "1,234", "$5",
                         "007", "1/2", "0x1F", "about 30 kcal", "-0", "1e3", "99999",
                         "12 345", "3.999"}}
  \cup {TooManyDigits}

\* The values sanitizeNumericValue is applied to.
SanitizeInputs ==
  {Num(x) : x \in SanitizeNumbers}
  \cup {Str(str) : str \in SanitizeStrings}
  \cup {Null, Undefined, Bool(TRUE), Bool(FALSE)}
  \cup {Arr(<<>>), Arr(<<Num(Fin(10000)), Num(Fin(20000))>>), Arr(<<Null>>),
        Arr(<<Arr(<<Num(Fin(30000))>>)>>), Arr(<<Bool(TRUE)>>), Arr(<<Obj(<<>>)>>)}
  \cup {Arr(<<Num(x)>>) : x \in SanitizeNumbers}
  \cup {Arr(<<Str(str)>>) : str \in SanitizeStrings}
  \cup {Obj(<<>>), Obj(<< <<K("calories"), Num(Fin(10000))>> >>)}

InitSanitize ==
  /\ Idle
  /\ arg \in SanitizeInputs
  /\ out1 = <<>>
  /\ out2 = <<>>
  /\ stage = "input"

\* sanitizeNumericValue(arg)
Sanitize ==
  /\ stage = "input"
  /\ out1' = sanitizeNumericValue(arg)
  /\ stage' = "sanitized"
  /\ UNCHANGED <<pipevars, arg, out2>>

NextSanitize == Sanitize

SpecSanitize == InitSanitize /\ [][NextSanitize]_vars

(***************************************************************************)
(* The expression pass on its own                                          *)
(***************************************************************************)

\* The operands of the expressions, as written.
OperandTexts ==
  {Chars(str) : str \in {"0", "0.0", "1.01", "2.03", "5.5", "1.2", "2", "3.5", "10", "7."}}
  \cup {TooManyDigits}

Operators == {"+", "-", "*", "/"}

\* The expressions a op b.
ExprInputs == [a : OperandTexts, op : Operators, b : OperandTexts]

\* The text of the expression e: a op b, or a op b op2 c.
ExprText(e) ==
  e.a \o <<e.op>> \o e.b \o (IF "op2" \in DOMAIN e THEN <<e.op2>> \o e.c ELSE <<>>)

InitFix ==
  /\ Idle
  /\ arg \in ExprInputs
  /\ out1 = <<>>
  /\ out2 = <<>>
  /\ stage = "input"

\* fixMacrosInJsonString on the expression arg
FixOnce ==
  /\ stage = "input"
  /\ out1' = fixMacrosInJsonString(ExprText(arg))
  /\ stage' = "fixed"
  /\ UNCHANGED <<pipevars, arg, out2>>

\* fixMacrosInJsonString on its own output
FixTwice ==
  /\ stage = "fixed"
  /\ out2' = fixMacrosInJsonString(out1)
  /\ stage' = "refixed"
  /\ UNCHANGED <<pipevars, arg, out1>>

NextFix ==
  \/ FixOnce
  \/ FixTwice

SpecFix == InitFix /\ [][NextFix]_vars

ChainOperands == {Chars(str) : str \in {"1", "2", "3", "4", "5", "1.5"}}

\* A date written with dashes.
DateLike == [a |-> Chars("2024"), op |-> "-", b |-> Chars("01"), op2 |-> "-", c |-> Chars("15")]

\* The expressions a op b op2 c.
ChainInputs ==
  [a : ChainOperands, op : Operators, b : ChainOperands, op2 : Operators, c : ChainOperands]
  \cup {DateLike}

InitChain ==
  /\ Idle
  /\ arg \in ChainInputs
  /\ out1 = <<>>
  /\ out2 = <<>>
  /\ stage = "input"

SpecChain == InitChain /\ [][NextFix]_vars

(***************************************************************************)
(* The shaping of one food item on its own                                 *)
(***************************************************************************)

\* How a macro field of the item is written: a number, left out, a text
\* without digits, null, or an object.
FieldOptions == {"valid", "missing", "text", "null", "object"}

\* The valid value of each field, as written and in units of 1 / Unit.
ValidField ==
  [calories |-> [txt |-> "95", v |-> 950000], protein |-> [txt |-> "0.5", v |-> 5000],
   carbs |-> [txt |-> "25", v |-> 250000], fat |-> [txt |-> "0.3", v |-> 3000]]

\* The member of the macros object for field f written as option says;
\* the empty sequence of members when it is left out.
FieldText(f, option) ==
  IF option = "missing" THEN <<>>
  ELSE <<Chars("\"") \o Chars(f) \o Chars("\":")
         \o (CASE option = "valid" -> Chars(ValidField[f].txt)
               [] option = "text" -> Chars("\"n/a\"")
               [] option = "null" -> Chars("null")
               [] option = "object" -> Chars("{}"))>>

RECURSIVE JoinMembers(_)
\* The members separated by commas.
JoinMembers(members) ==
  IF members = <<>> THEN <<>>
  ELSE IF Len(members) = 1 THEN members[1]
  ELSE members[1] \o Chars(",") \o JoinMembers(Tail(members))

\* The response with one food item whose macros are written as item says.
ItemText(item) ==
  Chars("{\"foodItems\":[{\"name\":\"apple\",\"quantity\":\"1 medium\"")
  \o (IF item.macros = "absent" THEN <<>>
      ELSE Chars(",\"macros\":{")
           \o JoinMembers(FieldText("calories", item.calories) \o FieldText("protein", item.protein)
                          \o FieldText("carbs", item.carbs) \o FieldText("fat", item.fat))
           \o Chars("}"))
  \o Chars("}],\"totalMacros\":{\"calories\":95}}")

\* The items: every way of writing the four fields, and no macros object.
ItemInputs ==
  [macros : {"object"}, calories : FieldOptions, protein : FieldOptions,
   carbs : FieldOptions, fat : FieldOptions]
  \cup {[macros |-> "absent", calories |-> "missing", protein |-> "missing",
         carbs |-> "missing", fat |-> "missing"]}

InitShape ==
  /\ Idle
  /\ arg \in ItemInputs
  /\ out1 = <<>>
  /\ out2 = <<>>
  /\ stage = "input"

\* One attempt on the response that holds the item arg.
ShapeItem ==
  /\ stage = "input"
  /\ out1' = TryParse(ItemText(arg), FALSE)
  /\ stage' = "shaped"
  /\ UNCHANGED <<pipevars, arg, out2>>

NextShape == ShapeItem

SpecShape == InitShape /\ [][NextShape]_vars

(***************************************************************************)
(* One attempt on responses that pass the validation                       *)
(***************************************************************************)

\* The ways a response writes the name or the quantity of its food item.
ValueOptions ==
  {"missing", "empty", "text", "number", "zero", "true", "false", "null", "array", "object"}

\* The JSON text of a value written as option says.
ValueText(option) ==
  CASE option = "empty" -> Chars("\"\"")
    [] option = "text" -> Chars("\"rice\"")
    [] option = "number" -> Chars("5")
    [] option = "zero" -> Chars("0")
    [] option = "true" -> Chars("true")
    [] option = "false" -> Chars("false")
    [] option = "null" -> Chars("null")
    [] option = "array" -> Chars("[]")
    [] option = "object" -> Chars("{}")

\* The member of the given key written as option says; the empty sequence of
\* members when it is left out.
MemberText(key, option) ==
  IF option = "missing" THEN <<>>
  ELSE <<Chars("\"") \o Chars(key) \o Chars("\":") \o ValueText(option)>>

\* The ways a response writes the element of its list of food items.
ElementOptions == {"item", "null", "number", "text", "array"}

\* The ways a response writes its totalMacros object.
TotalOptions == {"empty", "whole", "partial"}

TotalText(option) ==
  CASE option = "empty" -> Chars("{}")
    [] option = "whole" -> Chars("{\"calories\":300,\"protein\":4,\"carbs\":60,\"fat\":1}")
    [] option = "partial" -> Chars("{\"calories\":\"80 kcal\",\"protein\":-4,\"fat\":null}")

\* The ways a response writes its suggestion.
SuggestionOptions == {"missing", "null", "advice", "nullFood"}

SuggestionMember(option) ==
  CASE option = "missing" -> <<>>
    [] option = "null" -> Chars(",\"suggestion\":null")
    [] option = "advice" -> Chars(",\"suggestion\":{\"shouldEat\":1,\"alternatives\":\"none\"}")
    [] option = "nullFood" -> Chars(",\"suggestion\":{\"complementaryFoods\":[null]}")

\* The calories the item of the response is given, as written.
ItemCalories == {"120", "7"}

\* The element of the list of food items.
ElementText(r, calories) ==
  CASE r.element = "null" -> Chars("null")
    [] r.element = "number" -> Chars("5")
    [] r.element = "text" -> Chars("\"rice\"")
    [] r.element = "array" -> Chars("[]")
    [] r.element = "item" ->
         Chars("{")
         \o JoinMembers(MemberText("name", r.name) \o MemberText("quantity", r.quantity)
                        \o <<Chars("\"macros\":{\"calories\":") \o Chars(calories)
                             \o Chars(",\"protein\":2}")>>)
         \o Chars("}")

\* The response r describes, its item having the given calories: foodItems
\* is a list and totalMacros is an object.
ResponseText(r, calories) ==
  Chars("{\"foodItems\":[") \o ElementText(r, calories) \o Chars("],\"totalMacros\":")
  \o TotalText(r.total) \o SuggestionMember(r.suggestion) \o Chars("}")

\* The calories other than the given ones.
OtherCalories(calories) == CHOOSE c \in ItemCalories : c # calories

ResponseInputs ==
  [element : {"item"}, name : ValueOptions, quantity : ValueOptions, calories : ItemCalories,
   total : TotalOptions, suggestion : {"missing"}, hasContext : {FALSE}]
  \cup [element : ElementOptions, name : {"text"}, quantity : {"missing"},
        calories : ItemCalories, total : TotalOptions, suggestion : SuggestionOptions,
        hasContext : BOOLEAN]

InitResponse ==
  /\ Idle
  /\ arg \in ResponseInputs
  /\ out1 = <<>>
  /\ out2 = <<>>
  /\ stage = "input"

\* One attempt on the response arg.
ShapeResponse ==
  /\ stage = "input"
  /\ out1' = TryParse(ResponseText(arg, arg.calories), arg.hasContext)
  /\ stage' = "shaped"
  /\ UNCHANGED <<pipevars, arg, out2>>

\* One attempt on the response arg with other macros for its item.
ShapeVariant ==
  /\ stage = "shaped"
  /\ out2' = TryParse(ResponseText(arg, OtherCalories(arg.calories)), arg.hasContext)
  /\ stage' = "varied"
  /\ UNCHANGED <<pipevars, arg, out1>>

NextOfResponse ==
  \/ ShapeResponse
  \/ ShapeVariant

SpecResponse == InitResponse /\ [][NextOfResponse]_vars

(***************************************************************************)
(* Two calls of parseFoodAnalysisResponseWithRetry in progress at once     *)
(***************************************************************************)

\* The two calls.
Instances == {1, 2}

\* The raw responses the two calls are given.
InstanceRawTexts == {GarbageText, DoubleCommaText}

\* The answers of the model to the two calls.
InstanceAnswers == <<GarbageText, MinimalJson>>

\* The texts the try block of one of the two calls can be handed.
InstanceTexts ==
  UNION {{RepairTimes(raw, n) : n \in 0..MaxRetriesBound} : raw \in InstanceRawTexts}
  \cup {InstanceAnswers[r] : r \in 1..Len(InstanceAnswers)}

\* How the caller calls: analyzeFoodFromText, analyzeFoodFromImage, or a
\* caller that passes no image.
InstanceModes == {"text", "image", "noimage"}

\* The parameters and the locals of a call at its start.
NewInstance(raw, context, budget, mode) ==
  [pc |-> "start", rawText |-> raw, response |-> raw, hasContext |-> context, maxRetries |-> budget,
   base64Image |-> (IF mode = "image" THEN Chars("data:image/png;base64,AAAA") ELSE <<>>),
   isTextAnalysis |-> (mode = "text"),
   foodName |-> (IF mode = "text" THEN Chars("rice") ELSE <<>>),
   quantity |-> (IF mode = "text" THEN Chars("1 cup") ELSE <<>>),
   parseAttempt |-> 0, retryAttempt |-> 0, result |-> NoResult, outcome |-> "none",
   attempts |-> <<>>, prompts |-> <<>>, answers |-> <<>>]

\* The call returns the analysis r.
InstanceReturns(s, r, how) ==
  [s EXCEPT !.pc = "returned", !.result = r, !.outcome = how]

RECURSIVE InstanceParseLoop(_, _, _)
\* The parse loop, which holds no suspension point, from the state s of the
\* call to its end: the call has returned, or goes on to the regeneration
\* loop.
InstanceParseLoop(s, tries, repairs) ==
  IF ~LoopContinues(s.parseAttempt, s.maxRetries)
    THEN [s EXCEPT !.pc = "regen"]
    ELSE IF tries[s.hasContext][s.response].ok
      THEN InstanceReturns([s EXCEPT !.attempts = Append(@, "parse")],
                           tries[s.hasContext][s.response].result, "success")
      ELSE IF ParseCatch(s.parseAttempt, s.maxRetries) = "break"
        THEN [s EXCEPT !.pc = "regen", !.attempts = Append(@, "parse")]
        ELSE InstanceParseLoop([s EXCEPT !.response = repairs[s.response],
                                         !.parseAttempt = @ + 1,
                                         !.attempts = Append(@, "parse")],
                               tries, repairs)

\* The catch of the regeneration loop.
InstanceRetryFailed(s) ==
  IF RetryCatch(s.retryAttempt, s.maxRetries) = "break"
    THEN InstanceReturns(s, Fallback(s.hasContext), "fallback")
    ELSE [s EXCEPT !.pc = "wait"]

\* The head of the regeneration loop up to the model call, where the call is
\* suspended.
InstanceStartRetry(s) ==
  IF ~LoopContinues(s.retryAttempt, s.maxRetries)
    THEN InstanceReturns(s, Fallback(s.hasContext), "fallback")
    ELSE IF RetryRequest(s.isTextAnalysis, s.foodName, s.quantity, s.base64Image) = "throw"
      THEN InstanceRetryFailed([s EXCEPT !.attempts = Append(@, "regen")])
      ELSE [s EXCEPT !.pc = "call",
                     !.attempts = Append(@, "regen"),
                     !.prompts = Append(@, <<RetryRequest(s.isTextAnalysis, s.foodName,
                                                          s.quantity, s.base64Image),
                                             RetryPrompt(OriginalPrompt(s.isTextAnalysis))>>)]

\* What resumes a call: it is made or its wait ends, the model call raises,
\* or the model gives its answer number r.
RunEvent == [kind |-> "run"]

RaiseEvent == [kind |-> "raise"]

AnswerEvent(r) == [kind |-> "answer", r |-> r]

InstanceEvents == {RunEvent, RaiseEvent} \cup {AnswerEvent(r) : r \in 1..Len(InstanceAnswers)}

\* The call runs from the state s to its next suspension point or to its
\* return; an event that is not the one it waits for leaves it where it is.
InstanceStep(s, event, tries, repairs) ==
  CASE s.pc = "start" ->
         IF InstanceParseLoop(s, tries, repairs).pc = "returned"
           THEN InstanceParseLoop(s, tries, repairs)
           ELSE InstanceStartRetry(InstanceParseLoop(s, tries, repairs))
    [] s.pc = "wait" -> InstanceStartRetry([s EXCEPT !.retryAttempt = @ + 1])
    [] s.pc = "call" /\ event.kind = "raise" ->
         InstanceRetryFailed([s EXCEPT !.answers = Append(@, event)])
    [] s.pc = "call" /\ event.kind = "answer" ->
         IF tries[s.hasContext][InstanceAnswers[event.r]].ok
           THEN InstanceReturns([s EXCEPT !.answers = Append(@, event)],
                                tries[s.hasContext][InstanceAnswers[event.r]].result, "success")
           ELSE InstanceRetryFailed([s EXCEPT !.answers = Append(@, event)])
    [] OTHER -> s

\* Locals that share the counter of the regeneration loop, as a variable of
\* the module would be.
LocalsSharedCounter(all, i) ==
  [all[i] EXCEPT !.retryAttempt = IF all[1].retryAttempt > all[2].retryAttempt
                                    THEN all[1].retryAttempt ELSE all[2].retryAttempt]

\* What the call i reads when it runs: its own parameters and locals.
Locals(all, i) == all[i]

InitTwo ==
  /\ tryOf = [c \in BOOLEAN |-> [t \in InstanceTexts |-> TryParse(t, c)]]
  /\ repairOf = [t \in InstanceTexts |-> repairJsonString(t)]
  /\ instances \in [Instances -> {NewInstance(raw, c, n, m) :
                                    raw \in InstanceRawTexts, c \in BOOLEAN,
                                    n \in 0..MaxRetriesBound, m \in InstanceModes}]
  /\ pc = "idle"
  /\ response = <<>>
  /\ rawText = <<>>
  /\ hasContext = FALSE
  /\ maxRetries = 0
  /\ base64Image = <<>>
  /\ isTextAnalysis = FALSE
  /\ analysisPrompt = <<>>
  /\ retryPrompt = <<>>
  /\ foodName = <<>>
  /\ quantity = <<>>
  /\ parseAttempt = 0
  /\ retryAttempt = 0
  /\ result = NoResult
  /\ outcome = "none"
  /\ request = "none"
  /\ newResponse = <<>>
  /\ parses = 0
  /\ regens = 0
  /\ failures = 0
  /\ calls = 0
  /\ throws = 0
  /\ waits = 0
  /\ arg = <<>>
  /\ out1 = <<>>
  /\ out2 = <<>>
  /\ stage = "two"
  /\ requests = <<>>
  /\ db = <<>>

\* The call i runs to its next suspension point.
InstanceRuns(i, event) ==
  /\ instances' = [instances EXCEPT ![i] = InstanceStep(Locals(instances, i), event,
                                                        tryOf, repairOf)]
  /\ UNCHANGED <<onevars, arg, out1, out2, stage, requests, db>>

\* The call i is made: it runs to its first model call or to its return.
Begin(i) == instances[i].pc = "start" /\ InstanceRuns(i, RunEvent)

\* The model answers the call i.
Answer(i, r) == instances[i].pc = "call" /\ InstanceRuns(i, AnswerEvent(r))

\* The model call of the call i raises.
Raise(i) == instances[i].pc = "call" /\ InstanceRuns(i, RaiseEvent)

\* The wait of the call i ends.
WakeUp(i) == instances[i].pc = "wait" /\ InstanceRuns(i, RunEvent)

NextTwo ==
  \/ \E i \in Instances : Begin(i)
  \/ \E i \in Instances : \E r \in 1..Len(InstanceAnswers) : Answer(i, r)
  \/ \E i \in Instances : Raise(i)
  \/ \E i \in Instances : WakeUp(i)

SpecTwo == InitTwo /\ [][NextTwo]_vars

(***************************************************************************)
(* The meals controller: addFoodEntry and removeFoodEntry                  *)
(***************************************************************************)

\* The two requests in progress, for one user and one date.
Requests == {1, 2}

\* The calories of the entries: "e0" is stored before the requests, and the
\* request i adds "e1" or "e2". The other three macros are handled alike.
CaloriesOf == [e0 |-> 100, e1 |-> 20, e2 |-> 3]

\* The entry the request i adds.
NewEntryOf(i) == IF i = 1 THEN "e1" ELSE "e2"

\* No row of daily_meals for the user and the date.
NoRow == [exists |-> FALSE, foodEntries |-> <<>>, totalMacros |-> 0]

\* The row that holds the entry "e0".
RowWithEntry == [exists |-> TRUE, foodEntries |-> <<"e0">>, totalMacros |-> CaloriesOf["e0"]]

\* A request at its start.
NewRequest(kind, entry) ==
  [kind |-> kind, entry |-> entry, pc |-> "start", existing |-> NoRow, updated |-> NoRow,
   status |-> 0]

\* updatedFoodDetails of addFoodEntry.
AddedTo(existing, entry) ==
  IF existing.exists
    THEN [exists |-> TRUE, foodEntries |-> Append(existing.foodEntries, entry),
          totalMacros |-> existing.totalMacros + CaloriesOf[entry]]
    ELSE [exists |-> TRUE, foodEntries |-> <<entry>>, totalMacros |-> CaloriesOf[entry]]

\* updatedFoodDetails of removeFoodEntry.
RemovedFrom(existing, entry) ==
  [exists |-> TRUE,
   foodEntries |-> SelectSeq(existing.foodEntries, LAMBDA id : id # entry),
   totalMacros |-> existing.totalMacros - CaloriesOf[entry]]

\* removeFoodEntry answers 404: there is no row, or the entry is not in it.
NotFound(existing, entry) ==
  ~existing.exists \/ \A k \in 1..Len(existing.foodEntries) : existing.foodEntries[k] # entry

\* Two requests are made. The database runs each transaction at its default
\* isolation, read committed; lock is the request whose transaction has
\* written the row and not ended, 0 when there is none.
InitMeals ==
  /\ NoCall
  /\ instances = <<>>
  /\ arg = <<>>
  /\ out1 = <<>>
  /\ out2 = <<>>
  /\ stage = "meals"
  /\ requests \in [Requests -> {NewRequest("add", "e1"), NewRequest("add", "e2"),
                                NewRequest("remove", "e0")}]
  /\ \A i \in Requests : requests[i].kind = "add" => requests[i].entry = NewEntryOf(i)
  /\ db \in {[row |-> r, initial |-> r, lock |-> 0,
              inTransaction |-> [i \in Requests |-> FALSE],
              connection |-> [i \in Requests |-> "none"]] : r \in {NoRow, RowWithEntry}}

mealsframe == <<onevars, arg, out1, out2, stage, instances>>

\* pool.connect() and BEGIN
MealsBegin(i) ==
  /\ requests[i].pc = "start"
  /\ requests' = [requests EXCEPT ![i].pc = "select"]
  /\ db' = [db EXCEPT !.connection[i] = "held", !.inTransaction[i] = TRUE]
  /\ UNCHANGED mealsframe

\* The SELECT of the row and what the handler computes from it: the record
\* to write, or the 404 answer of removeFoodEntry, which returns from inside
\* the try block.
MealsSelect(i) ==
  /\ requests[i].pc = "select"
  /\ requests' =
       [requests EXCEPT ![i] =
          IF requests[i].kind = "remove" /\ NotFound(db.row, requests[i].entry)
            THEN [@ EXCEPT !.existing = db.row, !.status = 404, !.pc = "release"]
            ELSE [@ EXCEPT !.existing = db.row, !.pc = "write",
                           !.updated = IF requests[i].kind = "add"
                                         THEN AddedTo(db.row, requests[i].entry)
                                         ELSE RemovedFrom(db.row, requests[i].entry)]]
  /\ UNCHANGED <<db, mealsframe>>

\* The INSERT or the UPDATE: it waits while the transaction of the other
\* request holds the row; an INSERT of a row that exists by now violates the
\* unique key of user and date.
MealsWrite(i) ==
  /\ requests[i].pc = "write"
  /\ db.lock \in {0, i}
  /\ IF requests[i].kind = "add" /\ ~requests[i].existing.exists /\ db.row.exists
       THEN /\ requests' = [requests EXCEPT ![i].pc = "rollback"]
            /\ UNCHANGED db
       ELSE /\ requests' = [requests EXCEPT ![i].pc = "commit"]
            /\ db' = [db EXCEPT !.lock = i]
  /\ UNCHANGED mealsframe

\* COMMIT and the answer of success.
MealsCommit(i) ==
  /\ requests[i].pc = "commit"
  /\ requests' = [requests EXCEPT ![i].pc = "release", ![i].status = 200]
  /\ db' = [db EXCEPT !.row = requests[i].updated, !.lock = 0, !.inTransaction[i] = FALSE]
  /\ UNCHANGED mealsframe

\* A query of the transaction raises.
MealsQueryFails(i) ==
  /\ requests[i].pc \in {"select", "write", "commit"}
  /\ requests' = [requests EXCEPT ![i].pc = "rollback"]
  /\ UNCHANGED <<db, mealsframe>>

\* The catch block: ROLLBACK, and the error is thrown on to the answer 500.
MealsRollback(i) ==
  /\ requests[i].pc = "rollback"
  /\ requests' = [requests EXCEPT ![i].pc = "release", ![i].status = 500]
  /\ db' = [db EXCEPT !.lock = IF @ = i THEN 0 ELSE @, !.inTransaction[i] = FALSE]
  /\ UNCHANGED mealsframe

\* The finally block: client.release().
MealsRelease(i) ==
  /\ requests[i].pc = "release"
  /\ requests' = [requests EXCEPT ![i].pc = "done"]
  /\ db' = [db EXCEPT !.connection[i] =
                        IF db.inTransaction[i] THEN "releasedInTransaction" ELSE "released"]
  /\ UNCHANGED mealsframe

NextMeals ==
  \/ \E i \in Requests : MealsBegin(i)
  \/ \E i \in Requests : MealsSelect(i)
  \/ \E i \in Requests : MealsWrite(i)
  \/ \E i \in Requests : MealsCommit(i)
  \/ \E i \in Requests : MealsQueryFails(i)
  \/ \E i \in Requests : MealsRollback(i)
  \/ \E i \in Requests : MealsRelease(i)

SpecMeals == InitMeals /\ [][NextMeals]_vars

(***************************************************************************)
(* The payments controller: verifyPaymentController                        *)
(***************************************************************************)

\* The rows of user_subscriptions of the user: row 0 may be stored before
\* the requests, and the request i inserts the row i.
SubscriptionRows == {0} \cup Requests

\* What the payment service says of the payment of a request: succeeded and
\* recent, succeeded more than 5 minutes ago, not succeeded, or an error.
PaymentStates == {"succeeded", "old", "failed", "error"}

NewVerification(payment) ==
  [payment |-> payment, pc |-> "verify", targets |-> {}, expired |-> {}, inserted |-> FALSE,
   status |-> 0]

\* Two verifications for one user are requested. status is the committed
\* status of each row ("absent" for a row that is not stored), plan the
\* committed plan of the user; the transactions run at the default
\* isolation, read committed.
InitPayments ==
  /\ NoCall
  /\ instances = <<>>
  /\ arg = <<>>
  /\ out1 = <<>>
  /\ out2 = <<>>
  /\ stage = "payments"
  /\ requests \in [Requests -> {NewVerification(p) : p \in PaymentStates}]
  /\ db \in {[status |-> [r \in SubscriptionRows |-> IF r = 0 THEN s0 ELSE "absent"],
              plan |-> "free", userLock |-> 0,
              inTransaction |-> [i \in Requests |-> FALSE],
              connection |-> [i \in Requests |-> "none"]] : s0 \in {"absent", "active", "expired"}}

\* The rows the open transaction of another request has updated.
LockedByOther(i) == UNION {requests[j].expired : j \in Requests \ {i}}

\* The answer of the payment service: only a recent succeeded payment goes
\* on to the database.
PaymentVerified(i) ==
  /\ requests[i].pc = "verify"
  /\ requests' =
       [requests EXCEPT ![i] =
          CASE requests[i].payment = "succeeded" -> [@ EXCEPT !.pc = "begin"]
            [] requests[i].payment = "old" -> [@ EXCEPT !.pc = "done", !.status = 400]
            [] requests[i].payment = "failed" -> [@ EXCEPT !.pc = "done", !.status = 200]
            [] requests[i].payment = "error" -> [@ EXCEPT !.pc = "done", !.status = 500]]
  /\ UNCHANGED <<db, mealsframe>>

\* pool.connect() and BEGIN; the UPDATE that expires the active rows starts
\* and takes its snapshot: the rows it sees as active.
PaymentExpireStarts(i) ==
  /\ requests[i].pc = "begin"
  /\ requests' = [requests EXCEPT ![i].pc = "expire",
                                  ![i].targets = {r \in SubscriptionRows : db.status[r] = "active"}]
  /\ db' = [db EXCEPT !.connection[i] = "held", !.inTransaction[i] = TRUE]
  /\ UNCHANGED mealsframe

\* The UPDATE ends: it has waited for the transactions that hold rows of its
\* snapshot, and updates those of them that are still active.
PaymentExpireEnds(i) ==
  /\ requests[i].pc = "expire"
  /\ requests[i].targets \cap LockedByOther(i) = {}
  /\ requests' = [requests EXCEPT ![i].pc = "insert",
                                  ![i].expired = {r \in requests[i].targets :
                                                    db.status[r] = "active"}]
  /\ UNCHANGED <<db, mealsframe>>

\* The INSERT of the new active row.
PaymentInsert(i) ==
  /\ requests[i].pc = "insert"
  /\ requests' = [requests EXCEPT ![i].pc = "plan", ![i].inserted = TRUE]
  /\ UNCHANGED <<db, mealsframe>>

\* The UPDATE of the plan of the user: it waits while the transaction of the
\* other request holds the row of the user.
PaymentUpdatePlan(i) ==
  /\ requests[i].pc = "plan"
  /\ db.userLock \in {0, i}
  /\ requests' = [requests EXCEPT ![i].pc = "commit"]
  /\ db' = [db EXCEPT !.userLock = i]
  /\ UNCHANGED mealsframe

\* COMMIT
PaymentCommit(i) ==
  /\ requests[i].pc = "commit"
  /\ requests' = [requests EXCEPT ![i].pc = "release", ![i].status = 200, ![i].expired = {}]
  /\ db' = [db EXCEPT !.status = [r \in SubscriptionRows |->
                                    IF r \in requests[i].expired THEN "expired"
                                    ELSE IF r = i THEN "active"
                                    ELSE db.status[r]],
                      !.plan = "pro", !.userLock = 0, !.inTransaction[i] = FALSE]
  /\ UNCHANGED mealsframe

\* A query of the transaction raises.
PaymentQueryFails(i) ==
  /\ requests[i].pc \in {"expire", "insert", "plan", "commit"}
  /\ requests' = [requests EXCEPT ![i].pc = "rollback"]
  /\ UNCHANGED <<db, mealsframe>>

\* The catch block: ROLLBACK, and the error is thrown on to the answer 500.
PaymentRollback(i) ==
  /\ requests[i].pc = "rollback"
  /\ requests' = [requests EXCEPT ![i].pc = "release", ![i].status = 500, ![i].expired = {},
                                  ![i].inserted = FALSE]
  /\ db' = [db EXCEPT !.userLock = IF @ = i THEN 0 ELSE @, !.inTransaction[i] = FALSE]
  /\ UNCHANGED mealsframe

\* The finally block: client.release(), and the answer.
PaymentRelease(i) ==
  /\ requests[i].pc = "release"
  /\ requests' = [requests EXCEPT ![i].pc = "done"]
  /\ db' = [db EXCEPT !.connection[i] =
                        IF db.inTransaction[i] THEN "releasedInTransaction" ELSE "released"]
  /\ UNCHANGED mealsframe

NextPayments ==
  \/ \E i \in Requests : PaymentVerified(i)
  \/ \E i \in Requests : PaymentExpireStarts(i)
  \/ \E i \in Requests : PaymentExpireEnds(i)
  \/ \E i \in Requests : PaymentInsert(i)
  \/ \E i \in Requests : PaymentUpdatePlan(i)
  \/ \E i \in Requests : PaymentCommit(i)
  \/ \E i \in Requests : PaymentQueryFails(i)
  \/ \E i \in Requests : PaymentRollback(i)
  \/ \E i \in Requests : PaymentRelease(i)

SpecPayments == InitPayments /\ [][NextPayments]_vars

(***************************************************************************)
(* Properties of the extraction pipeline                                   *)
(***************************************************************************)

MacroNames == {"calories", "protein", "carbs", "fat"}

\* The four macros of m are finite and not negative.
MacroSetOK(m) ==
  /\ DOMAIN m = MacroNames
  /\ \A f \in MacroNames : isFinite(m[f]) /\ ~isNaN(m[f]) /\ ~IsNegative(m[f])

\* The macro sets of the shaped suggestion sug.
SuggestionMacroSets(sug) ==
  (IF sug.mealCompletionSuggestions.t = "array"
     THEN {sug.mealCompletionSuggestions.arr[i].macros :
             i \in 1..Len(sug.mealCompletionSuggestions.arr)}
     ELSE {})
  \cup (IF sug.completeMealMacros = Undefined THEN {} ELSE {sug.completeMealMacros})

\* Every macro set the analysis r contains.
MacroSets(r) ==
  {r.foodItems[i].macros : i \in 1..Len(r.foodItems)}
  \cup {r.totalMacros}
  \cup (IF "mealCompletionSuggestions" \in DOMAIN r.suggestion
          THEN SuggestionMacroSets(r.suggestion) ELSE {})

\* r has the fields of a FoodAnalysis: a list of items with name, quantity
\* and macros, the total macros, and the suggestion or none.
IsFoodAnalysis(r) ==
  /\ DOMAIN r = {"foodItems", "totalMacros", "suggestion"}
  /\ \A i \in 1..Len(r.foodItems) :
       DOMAIN r.foodItems[i] = {"name", "quantity", "macros"}
       /\ DOMAIN r.foodItems[i].macros = MacroNames
  /\ DOMAIN r.totalMacros = MacroNames
  /\ \/ r.suggestion = Undefined
     \/ {"shouldEat", "reason", "alternatives"} \subseteq DOMAIN r.suggestion

\* The call has returned a FoodAnalysis to its caller.
Returned == pc = "returned" /\ outcome \in {"success", "fallback"} /\ IsFoodAnalysis(result)

\* C1: whatever the raw text, the flags, the mode, the budget and the
\* behaviour of the model (any answer or an error at any call), the call
\* never raises to its caller and ends by returning a FoodAnalysis, a shaped
\* success or the fallback.
C1_AlwaysReturnsNeverRaises ==
  /\ [](pc # "raised")
  /\ [](pc = "returned" => Returned)
  /\ <>Returned

\* C1, its case: a call in which the model raised has returned an analysis.
C1_Witness ==
  /\ Returned
  /\ calls > 0
  /\ throws > 0
  /\ maxRetries = MaxRetriesBound

\* C2: the parse loop makes at most maxRetries attempts and the regeneration
\* loop at most maxRetries attempts, at most twice maxRetries in total, and
\* a call in which every attempt failed returns the fallback and does not
\* raise.
C2_BoundedAttemptsThenFallback ==
  /\ parses <= maxRetries
  /\ regens <= maxRetries
  /\ parses + regens <= 2 * maxRetries
  /\ calls <= regens
  /\ pc # "raised"
  /\ (pc = "returned" /\ failures = regens /\ outcome # "success"
        => outcome = "fallback" /\ result = Fallback(hasContext))

\* C2, its case: the raw text and every answer of the model were unparsable,
\* both budgets are used up and the fallback is returned.
C2_Witness ==
  /\ pc = "returned"
  /\ outcome = "fallback"
  /\ maxRetries = MaxRetriesBound
  /\ parses = maxRetries
  /\ regens = maxRetries
  /\ calls = maxRetries
  /\ throws = 0

C3_Order ==
  /\ (pc \in {"regen", "awaiting", "wait"} => outcome = "none")
  /\ (calls > 0 \/ regens > 0 => parses = maxRetries)
  /\ (outcome = "fallback" => regens = maxRetries /\ failures = maxRetries)
  /\ (outcome = "success" /\ regens > 0 => failures = regens - 1)
  /\ (outcome # "none" <=> pc = "returned")

C3_Step ==
  /\ (pc \in {"regen", "awaiting", "wait"} => pc' # "parse")
  /\ (regens > 0 => parses' = parses /\ response' = response)
  /\ pc # "returned"

\* C3: the model is invoked only after every parse attempt of the budget has
\* failed, the fallback is returned only after every regeneration attempt of
\* the budget has failed, no step leads from the regeneration loop back to
\* the parse loop, and no step leaves a returned call.
C3_EscalationIsOrdered == []C3_Order /\ [][C3_Step]_vars

\* C3, its case: the answer of the last regeneration attempt of the budget
\* succeeded after every attempt before it failed.
C3_Witness ==
  /\ pc = "returned"
  /\ outcome = "success"
  /\ maxRetries = MaxRetriesBound
  /\ parses = maxRetries
  /\ calls = maxRetries
  /\ failures = maxRetries - 1

\* C4: a call that ends in the fallback returns one item named "Analysis
\* failed" with four zero macros, zero total macros, and a suggestion (not to
\* eat, a reason, the three alternatives) exactly when a suggestion is
\* expected, whatever the raw text and the answers of the model were.
C4_FallbackIsFixed ==
  outcome = "fallback" =>
    /\ Len(result.foodItems) = 1
    /\ result.foodItems[1].name = Str(Chars("Analysis failed"))
    /\ \A f \in MacroNames :
         result.foodItems[1].macros[f] = Fin(0) /\ result.totalMacros[f] = Fin(0)
    /\ (result.suggestion # Undefined <=> hasContext)
    /\ (hasContext =>
          /\ result.suggestion.shouldEat = FALSE
          /\ Len(result.suggestion.reason.str) > 0
          /\ result.suggestion.alternatives =
               Arr(<<Str(Chars("Try uploading a clearer image")),
                     Str(Chars("Enter the food details manually")),
                     Str(Chars("Contact support if this issue persists"))>>))

\* C4, its case: the fallback with the suggestion, after a raw text that
\* never closes and answers of the model that failed.
C4_Witness ==
  /\ outcome = "fallback"
  /\ hasContext
  /\ rawText = TruncatedText
  /\ calls > 0

\* C5: with the minimal JSON as raw text and a budget of at least 1, the
\* first parse attempt succeeds: no model call, no regeneration attempt, no
\* wait, an empty list of items and zero total macros.
C5_MinimalJsonSucceedsAtOnce ==
  rawText = MinimalJson /\ maxRetries >= 1 =>
    /\ pc \in {"parse", "returned"}
    /\ calls = 0 /\ regens = 0 /\ waits = 0
    /\ (pc = "parse" => parses = 0)
    /\ (pc = "returned" =>
          /\ outcome = "success"
          /\ parses = 1 /\ parseAttempt = 0
          /\ result.foodItems = <<>>
          /\ \A f \in MacroNames : result.totalMacros[f] = Fin(0)
          /\ result.suggestion = Undefined)

\* C5, its case: the call on the minimal JSON has returned, a suggestion
\* being expected.
C5_Witness ==
  /\ rawText = MinimalJson
  /\ pc = "returned"
  /\ maxRetries >= 1
  /\ hasContext

\* The analysis of the scenario text whose calories are written as the sum
\* of the operands a and b.
ScenarioResultOK(r, a, b) ==
  /\ Len(r.foodItems) = 1
  /\ r.foodItems[1].name = Str(Chars("banana"))
  /\ r.foodItems[1].quantity = Str(Chars("1 medium"))
  /\ r.foodItems[1].macros =
       [calories |-> Fin(Operands[a].v + Operands[b].v), protein |-> Fin(Unit),
        carbs |-> Fin(27 * Unit), fat |-> Fin(0)]
  /\ r.totalMacros =
       [calories |-> Fin(30400), protein |-> Fin(Unit), carbs |-> Fin(27 * Unit),
        fat |-> Fin(0)]

C7_RepairIsIdempotent == stage = "twice" => out2 = out1

\* The text is a well-formed JSON object.
IsJsonObject(text) == JSONparse(text).ok /\ JSONparse(text).val.t = "object"

\* C8: the repair of a well-formed JSON object is that text, and decodes to
\* the same value.
C8_RepairKeepsWellFormedJson ==
  stage \in {"once", "twice"} /\ IsJsonObject(arg) =>
    out1 = arg /\ JSONparse(out1) = JSONparse(arg)

\* C9: the result of sanitizeNumericValue is a finite number that is not
\* negative, for every input.
C9_SanitizedIsFiniteNonNegative ==
  stage = "sanitized" => isFinite(out1) /\ ~isNaN(out1) /\ ~IsNegative(out1)

\* C10: every macro set of every analysis the call returns has four finite
\* macros that are not negative.
C10_ReturnedMacrosFiniteNonNegative ==
  pc = "returned" => \A m \in MacroSets(result) : MacroSetOK(m)

\* C11: the list of food items of every analysis the call returns is not
\* empty: the fallback holds the placeholder item and no success holds an
\* empty list.
C11_ReturnedFoodItemsNonEmpty ==
  pc = "returned" =>
    /\ Len(result.foodItems) > 0
    /\ (outcome = "fallback" =>
          Len(result.foodItems) = 1
          /\ result.foodItems[1].name = Str(Chars("Analysis failed")))

\* The text whose decoding the successful attempt shaped: the text of the
\* parse loop, or the answer of the model.
SucceededText == IF regens = 0 THEN response ELSE newResponse

\* The decoded object of text holds a suggestion object.
CarriesSuggestion(text) ==
  Get(fixAndParseJson(text).val, Chars("suggestion")).t = "object"

\* The texts of RawTexts that decode to a valid object without a suggestion.
ValidWithoutSuggestion ==
  {MinimalJson, NullSuggestionText} \cup {TextOfCase(c) : c \in ScenarioCases}

\* C12: a success carries a suggestion exactly when one is expected and the
\* decoded object holds one; no returned analysis carries one when none is
\* expected; a valid text without a suggestion succeeds on the first attempt
\* without a suggestion and without a model call even when one is expected.
C12_SuggestionIsGated ==
  /\ (outcome = "success" =>
        (result.suggestion # Undefined <=> hasContext /\ CarriesSuggestion(SucceededText)))
  /\ (pc = "returned" /\ ~hasContext => result.suggestion = Undefined)
  /\ (pc = "returned" /\ hasContext /\ maxRetries >= 1 /\ rawText \in ValidWithoutSuggestion =>
        /\ outcome = "success"
        /\ parses = 1 /\ regens = 0 /\ calls = 0
        /\ result.suggestion = Undefined)

\* C12, its case: the decoded object holds a suggestion, none is expected
\* and the call has succeeded.
C12_Witness ==
  /\ outcome = "success"
  /\ ~hasContext
  /\ rawText = SuggestionText
  /\ CarriesSuggestion(SucceededText)

\* C13: whichever of the four macro fields of a food item are missing or
\* unusable (a text without digits, null, an object), and also when the item
\* has no macros object, the attempt succeeds, these fields are 0 in the
\* shaped item and every valid field keeps its value.
C13_PartialFieldsTolerated ==
  stage = "shaped" =>
    /\ out1.ok
    /\ Len(out1.result.foodItems) = 1
    /\ out1.result.foodItems[1].name = Str(Chars("apple"))
    /\ \A f \in MacroNames :
         out1.result.foodItems[1].macros[f] =
           IF arg[f] = "valid" THEN Fin(ValidField[f].v) ELSE Fin(0)

\* C13, its case: the item without protein and with the three other fields
\* valid has been shaped.
C13_Witness ==
  /\ stage = "shaped"
  /\ arg = [macros |-> "object", calories |-> "valid", protein |-> "missing",
            carbs |-> "valid", fat |-> "valid"]
  /\ out1.result.foodItems[1].macros.protein = Fin(0)
  /\ out1.result.foodItems[1].macros.calories = Fin(950000)

\* The text is digits, a dot and two digits.
IsTwoDecimalLiteral(text) ==
  /\ Len(text) >= 4
  /\ text[Len(text) - 2] = "."
  /\ \A i \in 1..Len(text) : i # Len(text) - 2 => text[i] \in Digit

\* The expression a op b written with the given texts.
Expr(a, op, b) == [a |-> Chars(a), op |-> op, b |-> Chars(b)]

\* C14: the literal substituted for an expression a op b is a finite value
\* that is not negative, written with two fraction digits; a-b with b > a
\* gives 0.00, a/b with b zero gives 0.00, and 1.01+2.03 gives 3.04, 5.5-1.2
\* gives 4.30, 2*3.5 gives 7.00, 10/0 gives 0.00.
C14_LiteralsAreTwoDecimalNonNegative ==
  stage = "fixed" =>
    /\ IsTwoDecimalLiteral(out1)
    /\ (arg.op = "/" /\ parseFloat(arg.b) = Fin(0) => out1 = Chars("0.00"))
    /\ (arg.op = "-" /\ parseFloat(arg.a).k = "fin" /\ parseFloat(arg.b).k = "fin"
          /\ parseFloat(arg.b).v > parseFloat(arg.a).v => out1 = Chars("0.00"))
    /\ (arg = Expr("1.01", "+", "2.03") => out1 = Chars("3.04"))
    /\ (arg = Expr("5.5", "-", "1.2") => out1 = Chars("4.30"))
    /\ (arg = Expr("2", "*", "3.5") => out1 = Chars("7.00"))
    /\ (arg = Expr("10", "/", "0") => out1 = Chars("0.00"))

\* A step in which the model call or the check of the image raises.
C15_Step ==
  throws' = throws + 1 =>
    /\ pc \in {"regen", "awaiting"}
    /\ failures' = failures + 1
    /\ retryAttempt' = retryAttempt
    /\ regens' = (IF pc = "regen" THEN regens + 1 ELSE regens)
    /\ regens' = retryAttempt + 1
    /\ (pc = "regen" => calls' = calls /\ request' = request)
    /\ IF retryAttempt + 1 < maxRetries
         THEN pc' = "wait" /\ waits' = waits + 1 /\ outcome' = "none"
         ELSE pc' = "returned" /\ outcome' = "fallback" /\ result' = Fallback(hasContext)
              /\ waits' = waits

\* A step in which the answer of the model fails to parse has the same
\* effect on the loop.
C15_ParseFailureStep ==
  pc = "awaiting" /\ failures' = failures + 1 /\ throws' = throws =>
    IF retryAttempt + 1 < maxRetries
      THEN pc' = "wait" /\ waits' = waits + 1 /\ outcome' = "none"
      ELSE pc' = "returned" /\ outcome' = "fallback" /\ result' = Fallback(hasContext)
           /\ waits' = waits

\* C15: an error raised in a regeneration attempt, by the model call or by
\* the check of the image, uses up that one attempt as a parse failure does:
\* the wait and the next attempt follow when budget remains, the fallback
\* otherwise; it never reaches the caller, and the attempt without an image
\* issues no model call.
C15_ErrorsConsumeOneAttempt ==
  /\ [](pc # "raised" /\ throws <= failures /\ failures <= regens /\ regens <= maxRetries)
  /\ [][C15_Step /\ C15_ParseFailureStep]_vars
  /\ [][pc = "wait" => pc' = "regen" /\ retryAttempt' = retryAttempt + 1
                       /\ retryAttempt' < maxRetries]_vars

\* C15, its case: every attempt of the budget raised for want of an image,
\* and the fallback is returned without a model call.
C15_Witness ==
  /\ pc = "returned"
  /\ outcome = "fallback"
  /\ maxRetries = MaxRetriesBound
  /\ throws = maxRetries
  /\ calls = 0

\* The waits of a call, by where the call is.
C17_Waits ==
  /\ (pc = "parse" \/ regens = 0 => waits = 0)
  /\ (pc = "regen" => waits = retryAttempt /\ regens = retryAttempt)
  /\ (pc = "awaiting" => waits = retryAttempt /\ regens = retryAttempt + 1)
  /\ (pc = "wait" => waits = retryAttempt + 1 /\ waits = failures /\ waits < maxRetries)
  /\ (outcome = "success" => waits = failures)
  /\ (outcome = "fallback" => waits = (IF maxRetries = 0 THEN 0 ELSE maxRetries - 1))

\* A wait starts only when a regeneration attempt other than the last one of
\* the budget fails.
C17_Step ==
  /\ (waits' # waits =>
        /\ waits' = waits + 1
        /\ pc \in {"regen", "awaiting"} /\ pc' = "wait"
        /\ failures' = failures + 1
        /\ retryAttempt + 1 < maxRetries)
  /\ (pc = "wait" => pc' = "regen" /\ retryAttempt' = retryAttempt + 1 /\ waits' = waits)

\* C17: the wait occurs exactly between a failed regeneration attempt j with
\* j+1 below the budget and the attempt j+1: none before the first attempt,
\* none between parse attempts, none after the last failed attempt, so a
\* call that exhausts a budget of n attempts waits n-1 times.
C17_BackoffBetweenAttempts == []C17_Waits /\ [][C17_Step]_vars

\* C17, its case: the budget of regeneration attempts is exhausted, every
\* attempt having called the model.
C17_Witness ==
  /\ outcome = "fallback"
  /\ maxRetries = MaxRetriesBound
  /\ calls = maxRetries
  /\ waits = maxRetries - 1

RECURSIVE Alone(_, _, _, _)
\* The call that starts in the state s and runs alone, the model giving the
\* answers one after the other: its state when it returns or when it waits
\* for an answer that is not given.
Alone(s, answers, tries, repairs) ==
  IF s.pc = "returned" THEN s
  ELSE IF s.pc = "call"
    THEN IF answers = <<>> THEN s
         ELSE Alone(InstanceStep(s, Head(answers), tries, repairs), Tail(answers),
                    tries, repairs)
    ELSE Alone(InstanceStep(s, RunEvent, tries, repairs), answers, tries, repairs)

\* The call in the state s, as it was made.
AsCalled(s) ==
  [s EXCEPT !.pc = "start", !.response = s.rawText, !.parseAttempt = 0,
            !.retryAttempt = 0, !.result = NoResult, !.outcome = "none",
            !.attempts = <<>>, !.prompts = <<>>, !.answers = <<>>]

\* A call suspended at its model call, or returned, is where it would be had
\* it run alone with the same parameters and the same answers of the model.
C16_AsAlone ==
  \A i \in Instances :
    instances[i].pc \in {"call", "returned"} =>
      instances[i] = Alone(AsCalled(instances[i]), instances[i].answers, tryOf, repairOf)

\* A step is a step of one call, leaves the other call as it is, and is the
\* step that call takes from its own parameters and locals.
C16_Step ==
  \A i \in Instances :
    instances'[i] # instances[i] =>
      /\ \A j \in Instances \ {i} : instances'[j] = instances[j]
      /\ \E event \in InstanceEvents :
           instances'[i] = InstanceStep(instances[i], event, tryOf, repairOf)

C18_Step ==
  pc = "parse" /\ parses' = parses + 1 /\ ~TryParse(response, hasContext).ok
               /\ parseAttempt + 1 < maxRetries =>
    /\ pc' = "parse"
    /\ parseAttempt' = parseAttempt + 1
    /\ response' = repairJsonString(response)
    /\ calls' = calls /\ regens' = regens

\* The parse attempt number i works on the raw text repaired i times, and the
\* raw text with two trailing commas is parsed by the second attempt.
C18_Texts ==
  /\ (pc = "parse" => response = RepairTimes(rawText, parseAttempt) /\ calls = 0)
  /\ (rawText = DoubleCommaText /\ maxRetries >= 2 /\ pc = "returned" =>
        /\ outcome = "success" /\ parseAttempt = 1 /\ parses = 2 /\ calls = 0
        /\ ~fixAndParseJson(rawText).ok
        /\ result = TryParse(repairJsonString(rawText), hasContext).result)

\* C18: a parse attempt i that fails with i+1 below the budget hands
\* repairJsonString of the current text to the attempt i+1 and calls no
\* model, so the attempt i parses the raw text repaired i times (then
\* normalized and repaired once more by fixAndParseJson); a raw text whose
\* only defect a second repair removes, such as two trailing commas, succeeds
\* at the second attempt without a model call.
C18_RepairedTextIsCarried == []C18_Texts /\ [][C18_Step]_vars

\* C18, its case: the raw text with two trailing commas has failed the first
\* parse attempt and succeeded at the second.
C18_Witness ==
  /\ rawText = DoubleCommaText
  /\ pc = "returned"
  /\ outcome = "success"
  /\ parseAttempt = 1
  /\ calls = 0

\* The text reaches Success within the parse loop of a call with the given
\* budget when it is the raw response of that call.
SucceedsAsRawText(text, context, budget) ==
  \E i \in 0..(budget - 1) : TryParse(RepairTimes(text, i), context).ok

\* C19: the answer of a regeneration attempt goes through the same loop of
\* normalizing, repairing and parsing as the raw response: an answer that
\* would reach Success as the raw response, within the budget of parse
\* attempts, makes the regeneration attempt succeed.
C19_AnswerParsedAsRawText ==
  [][pc = "awaiting" /\ throws' = throws
       /\ SucceedsAsRawText(newResponse', hasContext, maxRetries)
     => outcome' = "success"]_vars

\* The parts of the prompts and the shape of the requests of a call.
C20_Prompts ==
  /\ analysisPrompt = OriginalPrompt(isTextAnalysis)
  /\ (regens = 0 => retryPrompt = <<>> /\ request = "none")
  /\ (regens > 0 =>
        /\ Len(retryPrompt) = Len(analysisPrompt) + 1
        /\ SubSeq(retryPrompt, 1, Len(analysisPrompt)) = analysisPrompt
        /\ retryPrompt[Len(retryPrompt)] = "directive"
        /\ \A i \in 1..Len(analysisPrompt) : retryPrompt[i] # "directive")
  /\ (calls > 0 =>
        /\ request = (IF isTextAnalysis /\ foodName # <<>> /\ quantity # <<>>
                        THEN "text" ELSE "image")
        /\ (request = "image" => base64Image # <<>>))

\* Every regeneration attempt builds its prompt anew, and every model call
\* has the shape the parameters of the call determine.
C20_Step ==
  /\ (regens' = regens + 1 => retryPrompt' = analysisPrompt \o <<"directive">>)
  /\ (calls' = calls + 1 =>
        request' = (IF isTextAnalysis /\ foodName # <<>> /\ quantity # <<>>
                      THEN "text" ELSE "image"))
  /\ analysisPrompt' = analysisPrompt

\* C20: every regeneration attempt sends the original prompt followed by one
\* copy of the corrective directive, whatever the number of the attempt, and
\* never changes the original prompt; its request is text-only exactly when
\* isTextAnalysis, foodName and quantity are all truthy, and text with the
\* image otherwise.
C20_PromptAndRequestShape == []C20_Prompts /\ [][C20_Step]_vars

\* C20, its case: the second regeneration attempt of a call in text mode has
\* issued its model call.
C20_Witness ==
  /\ pc = "awaiting"
  /\ regens = 2
  /\ calls = 2
  /\ request = "text"
  /\ retryPrompt = <<"textAnalysisPrompt", "directive">>

\* The text decodes to a value whose foodItems is a list and whose
\* totalMacros is an object.
PassesValidation(parsed) ==
  /\ parsed.ok
  /\ Get(parsed.val, K("foodItems")).t = "array"
  /\ Get(parsed.val, K("totalMacros")).t = "object"

\* C21: an attempt whose text decodes to a value with a list foodItems and an
\* object totalMacros ends in Success, whatever the list, totalMacros and the
\* suggestion hold.
C21_ValidatedAttemptSucceeds ==
  stage \in {"shaped", "varied"}
    /\ PassesValidation(fixAndParseJson(ResponseText(arg, arg.calories)))
  => out1.ok

\* C22: every food item of a returned analysis has a name that is a string
\* and not empty, and a quantity that is a string, whatever values the
\* response gave them.
C22_NamesAndQuantitiesAreStrings ==
  stage \in {"shaped", "varied"} /\ out1.ok =>
    \A i \in 1..Len(out1.result.foodItems) :
      /\ out1.result.foodItems[i].name.t = "string"
      /\ out1.result.foodItems[i].name.str # <<>>
      /\ out1.result.foodItems[i].quantity.t = "string"

\* The place of the pass of operator op among the four passes.
PassOf(op) == CASE op = "+" -> 1 [] op = "-" -> 2 [] op = "*" -> 3 [] op = "/" -> 4

\* The expression a op b op2 c written with the given texts.
Chain(a, op, b, op2, c) ==
  [a |-> Chars(a), op |-> op, b |-> Chars(b), op2 |-> op2, c |-> Chars(c)]

\* C23: the four passes run over the whole text in the order + - * /, each
\* on the output of the one before: of two different operators in a op b
\* op2 c the one whose pass comes first is resolved first, whatever the
\* algebraic precedence, and its literal is an operand of the other; 2*3+4
\* gives 14.00 and 5-1+2 gives 2.00.
C23_PassesInFixedOrder ==
  stage = "fixed" =>
    /\ (PassOf(arg.op) < PassOf(arg.op2) =>
          out1 = ExprValue(arg.op2, ExprValue(arg.op, arg.a, arg.b), arg.c))
    /\ (PassOf(arg.op2) < PassOf(arg.op) =>
          out1 = ExprValue(arg.op, arg.a, ExprValue(arg.op2, arg.b, arg.c)))
    /\ (arg = Chain("2", "*", "3", "+", "4") => out1 = Chars("14.00"))
    /\ (arg = Chain("5", "-", "1", "+", "2") => out1 = Chars("2.00"))
    /\ (arg = Chain("4", "/", "2", "-", "2") => out1 = Chars("0.00"))

\* C23, its case: 2*3+4 has been normalized, the addition before the
\* multiplication.
C23_Witness ==
  /\ stage = "fixed"
  /\ arg = Chain("2", "*", "3", "+", "4")
  /\ out1 = Chars("14.00")

\* C25: fixMacrosInJsonString reaches a fixed point in one application: a
\* second application changes nothing, for chains of three operands with one
\* operator and for texts like dates too.
C25_FixIsIdempotent == stage = "refixed" => out2 = out1

\* The totals the attempt returns for each way of writing totalMacros: each
\* field sanitized on its own, "80 kcal" read as 80, a negative, a missing
\* and a null field as 0.
ExpectedTotal(option) ==
  CASE option = "empty" -> ZeroMacros
    [] option = "whole" -> [calories |-> Fin(300 * Unit), protein |-> Fin(4 * Unit),
                            carbs |-> Fin(60 * Unit), fat |-> Fin(Unit)]
    [] option = "partial" -> [calories |-> Fin(80 * Unit), protein |-> Fin(0),
                              carbs |-> Fin(0), fat |-> Fin(0)]

\* C24: the totalMacros of a Success comes from the decoded totalMacros
\* alone, each of its four fields sanitized on its own: the response with
\* other macros for its item gives the same totalMacros, which need not be
\* the sum of the macros of the items.
C24_TotalsIgnoreItemMacros ==
  /\ (stage \in {"shaped", "varied"} /\ out1.ok =>
        out1.result.totalMacros = ExpectedTotal(arg.total))
  /\ (stage = "varied" /\ out1.ok =>
        out2.ok /\ out2.result.totalMacros = out1.result.totalMacros)

\* C24, its case: the item has 120 calories in one response and 7 in the
\* other, and both results have the 300 calories of totalMacros.
C24_Witness ==
  /\ stage = "varied"
  /\ arg.element = "item"
  /\ arg.total = "whole"
  /\ out1.result.foodItems[1].macros.calories = Fin(120 * Unit)
  /\ out2.result.foodItems[1].macros.calories = Fin(7 * Unit)
  /\ out1.result.totalMacros.calories = Fin(300 * Unit)
  /\ out2.result.totalMacros.calories = Fin(300 * Unit)

\* The call raises only at a step before the pipeline, with the wrapped
\* error, no result, and nothing tried again.
C26_Raised ==
  pc = "raised" =>
    /\ stage \in {"client", "fetch", "call"}
    /\ outcome = "wrapped"
    /\ result = NoResult
    /\ parses = 0 /\ regens = 0 /\ calls = 0 /\ waits = 0

\* A step before the pipeline that raises ends the call at once.
C26_Step ==
  pc = "analyze" /\ stage' = stage => pc' = "raised" /\ result' = result

\* C26: analyzeFoodFromImage and analyzeFoodFromText raise only when the
\* construction of the client, the fetch of the image or the first model
\* call fails, and then with the wrapped error, without a retry and without
\* a fallback result; once parseFoodAnalysisResponseWithRetry is entered the
\* call returns a FoodAnalysis.
C26_RaisesOnlyBeforePipeline ==
  /\ [](C26_Raised /\ (pc = "returned" => stage = "pipeline" /\ IsFoodAnalysis(result)))
  /\ [][C26_Step]_vars
  /\ (stage = "pipeline" ~> pc = "returned")

\* C26, its case: the fetch of the image has failed and the call has raised.
C26_Witness ==
  /\ pc = "raised"
  /\ stage = "fetch"
  /\ outcome = "wrapped"

\* The answer says, after the normalizer, the repair and JSON.parse, that
\* containsFood is the boolean true.
SaysFood(answer) ==
  /\ DecodeValidation(answer).ok
  /\ DecodeValidation(answer).val.t = "object"
  /\ Get(DecodeValidation(answer).val, K("containsFood")) = Bool(TRUE)

\* The calls and waits of validateFoodImage are bounded, and what it returns
\* follows from the last answer.
C27_Bounded ==
  /\ pc # "raised"
  /\ calls <= maxRetries
  /\ failures <= maxRetries
  /\ waits = (IF pc = "wait" THEN retryAttempt + 1 ELSE retryAttempt)
  /\ waits <= (IF maxRetries = 0 THEN 0 ELSE maxRetries - 1)
  /\ (pc = "returned" =>
        /\ result.isFood \in BOOLEAN
        /\ (result.isFood => outcome = "decoded" /\ SaysFood(newResponse))
        /\ (outcome = "decoded" => DecodeValidation(newResponse).ok
                                   /\ result.isFood = SaysFood(newResponse)
                                   /\ failures = retryAttempt)
        /\ (outcome # "decoded" => ~result.isFood /\ failures = maxRetries))

\* An answer that decodes ends the call at once; a wait follows only a
\* failed attempt that is not the last.
C27_Step ==
  /\ (pc = "calling" /\ throws' = throws /\ DecodeValidation(newResponse').ok =>
        pc' = "returned" /\ calls' = calls /\ waits' = waits)
  /\ (waits' # waits => failures' = failures + 1 /\ retryAttempt + 1 < maxRetries)
  /\ (pc = "returned" => pc' = "returned")

\* C27: validateFoodImage, once its client exists, never raises, calls the
\* model at most maxRetries times and waits only between attempts; it
\* returns isFood true only for an answer that decodes to an object whose
\* containsFood is the boolean true, returns as soon as an answer decodes,
\* and returns isFood false in every other case.
C27_ValidationFailsClosed == []C27_Bounded /\ [][C27_Step]_vars

\* C27, its case: the first attempt failed, and the answer of the second
\* one says that the image holds food.
C27_Witness ==
  /\ stage = "validate"
  /\ pc = "returned"
  /\ result.isFood
  /\ failures = 1
  /\ waits = 1
  /\ calls = 2

\* C28: every transaction a meals handler begins is ended by COMMIT or
\* ROLLBACK before its connection goes back to the pool, on the 404 answers
\* of removeFoodEntry too, and a request that rolls back leaves the stored
\* row as it was.
C28_TransactionsEndBeforeRelease ==
  /\ [](\A i \in Requests : db.connection[i] # "releasedInTransaction")
  /\ [][\A i \in Requests :
          requests[i].pc = "rollback" /\ requests'[i] # requests[i] => db'.row = db.row]_vars

\* The entries of a list, as a set.
EntriesOf(row) == {row.foodEntries[k] : k \in 1..Len(row.foodEntries)}

RECURSIVE SumOfCalories(_)
SumOfCalories(entries) ==
  IF entries = {} THEN 0
  ELSE LET e == CHOOSE x \in entries : TRUE
       IN  CaloriesOf[e] + SumOfCalories(entries \ {e})

\* The entries the requests answered with success have added, and removed.
AddedEntries == {requests[i].entry : i \in {j \in Requests : requests[j].kind = "add" /\ requests[j].status = 200}}

RemovedEntries == {requests[i].entry : i \in {j \in Requests : requests[j].kind = "remove" /\ requests[j].status = 200}}

\* C29: when the requests have ended, however they overlapped, the stored
\* row holds the entries that were there or were added with success, less
\* those removed, and its totalMacros is the sum over them.
C29_NoAddIsLost ==
  (\A i \in Requests : requests[i].pc = "done") =>
    /\ EntriesOf(db.row) = (EntriesOf(db.initial) \cup AddedEntries) \ RemovedEntries
    /\ db.row.totalMacros = SumOfCalories(EntriesOf(db.row))

\* The rows of the user whose committed status is active.
ActiveRows == {r \in SubscriptionRows : db.status[r] = "active"}

\* C30: however the verifications for one user follow or overlap each
\* other, the user has at most one active subscription row, and a
\* verification whose payment did not succeed or is older than 5 minutes
\* changes no subscription row and no plan.
C30_AtMostOneActiveSubscription ==
  /\ [](Cardinality(ActiveRows) <= 1)
  /\ [][\A i \in Requests :
          requests[i].payment # "succeeded" /\ requests'[i] # requests[i] => db' = db]_vars

====
